---- MODULE Spec2Model ----
(***************************************************************************)
(* Lifecycle controller of the market data collector                       *)
(* (market_data_collector/runtime.py, market_data_collector/__init__.py).  *)
(*                                                                         *)
(* Every process of the host owns one RuntimeController.  The controllers  *)
(* share nothing but the lock file ./data/.mdc.lock: a directory entry     *)
(* (lock_file_path) naming an inode, and the flock() table of the kernel   *)
(* (flocked).  Inside a process the main thread, the signal handler that   *)
(* interrupts it, the event-loop thread and the thread spawned by the      *)
(* debounced auto-stop share the controller's fields.                      *)
(***************************************************************************)
EXTENDS Integers, Sequences, FiniteSets, TLC

\* ------------------------------------------------------------------ bounds
NProcs == 2
MaxReaders == 2
MaxOps == 4

Procs == 1..NProcs
Threads == {"main", "sig", "stopper"}
\* one inode per open handle plus the one the path names
Inodes == 1..(NProcs + 1)

\* self._lock_file = None
NoFile == 0
\* a file object after close(): still truthy, no descriptor behind it
Closed == -1

VARIABLES
    pc,                   \* pc[p][t]: where thread t of process p stands
    ctx,                  \* ctx[p]: who called the operation the main thread runs
    ret,                  \* ret[p]: the last start()/stop() to return in p: the thread and the result
    running,              \* _running
    lock_file,            \* _lock_file: NoFile, Closed, or the inode the handle is open on
    stop_lock,            \* _stop_lock: "free" or the thread inside `with self._stop_lock`
    reader_lock,          \* _reader_lock
    reader_count,         \* _reader_count
    auto_stop_scheduled,  \* _auto_stop_scheduled
    loop,                 \* _loop and its thread: "none", "running", "stopping", "dead"
    timer,                \* a call_later(0.5, _auto_stop_if_no_readers) handle is pending on _loop
    background_task,      \* _background_task: "none", "pending", "stuck", "done"
    runtime_started,      \* _runtime_started of the package
    auto_start,           \* runtime.auto_start of the configuration
    lock_file_path,       \* the inode ./data/.mdc.lock names, 0 when the path does not exist
    flocked,              \* flocked[i]: the process whose open handle holds LOCK_EX on inode i, or 0
    calm,                 \* history: "calm" while every process made at most one start() and no stop()
    first,                \* history: result of each process's first start() while calm
    hist,                 \* history: the register/unregister calls made, in order
    dropped,              \* history: a release brought the count to 0 while running, not yet answered
    contended,            \* history: another process held the token ever since this one called start()
    scopes,               \* scopes[p]: the `with MarketDataReader()` blocks the main thread is inside,
                          \*   innermost last, each with the reader count seen before entering it
    exc,                  \* exc[p]: an exception raised in a block's body is propagating
    left,                 \* left[p]: the count seen before entering the block left last, -1 if none
    g_runtime,            \* the module global _runtime: 0 for None, else the instance
    cls_instance,         \* RuntimeController._instance: 0 for None, else the instance
    init_lock,            \* _runtime_init_lock: "free" or the thread inside `with`
    initialized,          \* the instance has the attribute _initialized
    init_runs,            \* how many times the body of __init__ was entered past its guard
    sig_handlers,         \* signal.signal(SIGINT/SIGTERM, signal_handler) was done
    exit_hooks,           \* how many times atexit.register(self._cleanup_on_exit) was done
    gpc,                  \* gpc[t]: where thread t stands in get_runtime()
    got,                  \* got[t]: how the last get_runtime() of t ended, and the instance it returned
    wpc,                  \* where the _watch_ticker task stands
    fails,                \* errors of the task since a record last went through
    wrote,                \* what insert_data returned for the record at hand: "none", "ok", "failed"
    idx,                  \* the position of _notify_callbacks in self.callbacks['ticker']
    invoked,              \* the callbacks called for the record at hand
    raised,               \* the callbacks that raised for the record at hand
    is_running,           \* DataCollector.is_running
    task_st,              \* task_st[id]: "none", "live", "cancelling" (cancel() called) or "done"
    listed,               \* the tasks in PublicDataCollector.tasks
    awaited,              \* the tasks handed to asyncio.gather by PublicDataCollector.stop
    gnext,                \* gnext[g]: the symbol the group task of launch g handles next
    exchange,             \* the connection of self.exchange: "open" or "closed"
    spc,                  \* where the DataCollector.start() call in flight stands
    tpc,                  \* where the DataCollector.stop() call in flight stands
    ready,                \* the collector.start() / collector.stop() tasks not yet run, oldest first
    gen,                  \* how many times PublicDataCollector.start() has run
    called,               \* what the last start() or stop() call of the program found
    overlap,              \* a start() has launched while a stop() was in flight
    tables,               \* tables[kind]: the rows of the table of that kind (one symbol, one account)
    next_id,              \* the next AUTOINCREMENT id
    now,                  \* the clock
    mtime,                \* mtime[shard]: when the database file was last written
    result,               \* what the last insert_data() gave: "none", "true", "false", "raised"
    log,                  \* the insert_data() calls made, oldest first
    pending,              \* the trades received by _watch_trades and not yet stored
    fetched,              \* what the last get_data() returned
    resolved,             \* the requests _get_db_path has resolved, with their paths
    cleaned,              \* the last _check_and_cleanup_old_data() run on its own
    signalled,            \* signalled[p]: how the bounded wait of the last stop() for
                          \*   _stop_collectors_async ended: "none", "ok", "raised", "timeout", "skipped"
    db_lock,              \* DatabaseManager.lock: the thread inside `with self.lock`
    connections,          \* connections[f]: the connection pooled for shard f, 0 if none
    made,                 \* made[f]: how many connections sqlite3.connect has opened on shard f
    dpc,                  \* dpc[t]: where thread t stands in its database call, on which
                          \*   shard and with which connection
    callbacks,            \* DataCollector.callbacks[kind]: the observers registered for kind
    attached,             \* the callbacks[kind] list of the collectors that run the tasks
    delivered             \* the last record a task processed: its kind, the observers
                          \*   asked for that kind and the observers invoked for it

ctl == <<pc, ctx, ret>>
fields == <<running, lock_file, stop_lock, reader_lock, reader_count,
            auto_stop_scheduled, loop, timer, background_task, runtime_started, auto_start>>
files == <<lock_file_path, flocked>>
history == <<calm, first, hist, dropped, contended>>
scoped == <<scopes, exc, left>>
singleton == <<g_runtime, cls_instance, init_lock, initialized, init_runs,
               sig_handlers, exit_hooks, gpc, got>>
watching == <<wpc, fails, wrote, idx, invoked, raised>>
orch == <<is_running, task_st, listed, awaited, gnext, exchange, spc, tpc,
          ready, gen, called, overlap>>
database == <<tables, next_id, now, mtime, result, log>>
\* what the controller's operations leave alone
clients == <<pending, fetched, resolved, cleaned>>
waits == <<signalled>>
pool == <<db_lock, connections, made, dpc>>
observing == <<callbacks, attached, delivered>>
apart == <<singleton, watching, orch, database, clients, waits, pool, observing>>
vars == <<ctl, fields, files, history, scoped, apart>>

\* ------------------------------------------------------------- scheduling
Alive(p) == pc[p]["main"] # "exited"

\* The signal handler runs on the main thread: while it is active the frame it
\* interrupted does not advance.
CanRun(p, t) == Alive(p) /\ (t = "main" => pc[p]["sig"] = "idle")

At(p, t, l) == CanRun(p, t) /\ pc[p][t] = l

Goto(p, t, l) == pc' = [pc EXCEPT ![p][t] = l]

\* no start()/stop() result is on hand: a call is under way, or none was made
NoResult == [by |-> "main", val |-> "none"]

\* where a thread continues when the start()/stop() it runs returns
RetPc(p, t) ==
    IF t # "main" THEN "idle"
    ELSE CASE ctx[p] = "init" -> "init_done"
           [] ctx[p] = "exit" -> "exit_done"
           [] OTHER -> "idle"

Return(p, t, v) ==
    /\ pc' = [pc EXCEPT ![p][t] = RetPc(p, t)]
    /\ ret' = [ret EXCEPT ![p] = [by |-> t, val |-> v]]

\* -------------------------------------------------------------- history
\* What a step of process p adds to the history variables; ev tells a call of
\* start() or stop() from any other step.
FirstResult(p, ev) ==
    IF /\ first[p] = "none"
       /\ ev = "start" \/ pc[p]["main"] # "idle"
       /\ pc'[p]["main"] \in {"idle", "init_done"}
       /\ ret'[p].by = "main"
       /\ ret'[p].val \in {"start_true", "start_false", "start_raise"}
    THEN ret'[p].val ELSE first[p]

CalmAfter(p, ev) ==
    CASE calm = "no" -> "no"
      [] ev = "stop" -> "no"
      [] ev = "start" /\ first[p] # "none" -> "no"
      [] \E t \in Threads : pc[p][t] = "start_await" /\ pc'[p][t] = "start_rl_test" -> "failed"
      [] OTHER -> calm

DroppedAfter(p, ev) ==
    CASE ev = "register" -> FALSE
      [] ev = "release" -> reader_count'[p] = 0 /\ running[p]
      [] ~running'[p] -> FALSE
      [] OTHER -> dropped[p]

\* the token was held by another process from the call of start() in r up to
\* the flock() it is about to make
ContendedAfter(r) ==
    /\ pc'[r]["main"] \in {"al_open", "al_flock"}
    /\ pc[r]["main"] = "idle" \/ contended[r]
    /\ \E q \in Procs \ {r} : lock_file'[q] \in Inodes /\ flocked'[lock_file'[q]] = q

Recorded(p, ev) ==
    /\ contended' = [r \in Procs |-> ContendedAfter(r)]
    /\ calm' = CalmAfter(p, ev)
    /\ first' = IF CalmAfter(p, ev) = "no" THEN [q \in Procs |-> "none"]
                ELSE [first EXCEPT ![p] = FirstResult(p, ev)]
    /\ dropped' = [dropped EXCEPT ![p] = DroppedAfter(p, ev)]

Tracked(p, ev) ==
    /\ Recorded(p, ev)
    /\ UNCHANGED apart

Observe(p, ev) == Tracked(p, ev) /\ UNCHANGED <<hist, scoped>>

\* ------------------------------------------------------------ file system
OpenInodes == {lock_file[q] : q \in Procs} \cap Inodes

\* open(path, 'w') on a missing path creates a new inode
FreshInode ==
    CHOOSE i \in Inodes :
        /\ i \notin OpenInodes \cup {lock_file_path}
        /\ \A j \in Inodes : j \notin OpenInodes \cup {lock_file_path} => i <= j

\* the kernel's lock table once the handle behind _lock_file of p is closed
\* (close(), or the file object losing its last reference)
DropHandle(p) ==
    [i \in Inodes |-> IF i = lock_file[p] /\ flocked[i] = p THEN 0 ELSE flocked[i]]

\* p holds the Lock Token: LOCK_EX through its live handle
HoldsToken(p) == lock_file[p] \in Inodes /\ flocked[lock_file[p]] = p

\* ------------------------------------------------------ _acquire_lock
\* self._lock_file = open(self._lock_file_path, 'w')
AcquireOpen(p, t) ==
    /\ At(p, t, "al_open")
    /\ LET ino == IF lock_file_path = 0 THEN FreshInode ELSE lock_file_path
       IN /\ lock_file' = [lock_file EXCEPT ![p] = ino]
          /\ lock_file_path' = ino
          /\ flocked' = DropHandle(p)
    /\ Goto(p, t, "al_flock")
    /\ UNCHANGED <<ctx, ret, running, stop_lock, reader_lock, reader_count,
                   auto_stop_scheduled, loop, timer, background_task,
                   runtime_started, auto_start>>
    /\ Observe(p, "step")

\* a start() that takes the open handle for the lock, whoever holds LOCK_EX
AcquireFlockUnchecked(p, t) ==
    /\ At(p, t, "al_flock")
    /\ lock_file[p] \in Inodes
    /\ flocked' = [flocked EXCEPT ![lock_file[p]] = IF @ = 0 THEN p ELSE @]
    /\ Goto(p, t, "start_set_running")
    /\ UNCHANGED <<ctx, ret, running, lock_file, stop_lock, reader_lock, reader_count,
                   auto_stop_scheduled, loop, timer, background_task,
                   runtime_started, auto_start, lock_file_path>>
    /\ Observe(p, "step")

\* fcntl.flock(fd, LOCK_EX | LOCK_NB), write, flush; on IOError close and forget
AcquireFlock(p, t) ==
    /\ At(p, t, "al_flock")
    /\ LET h == lock_file[p]
       IN CASE h \notin Inodes ->
                 \* None.fileno() / fileno() of a closed file: not an IOError, start() raises
                 /\ Return(p, t, "start_raise")
                 /\ UNCHANGED <<lock_file, flocked>>
            [] h \in Inodes /\ flocked[h] \in {0, p} ->
                 /\ flocked' = [flocked EXCEPT ![h] = p]
                 /\ Goto(p, t, "start_set_running")
                 /\ UNCHANGED <<ret, lock_file>>
            [] OTHER ->
                 /\ lock_file' = [lock_file EXCEPT ![p] = NoFile]
                 /\ Return(p, t, "start_false")
                 /\ UNCHANGED flocked
    /\ UNCHANGED <<ctx, running, stop_lock, reader_lock, reader_count,
                   auto_stop_scheduled, loop, timer, background_task,
                   runtime_started, auto_start, lock_file_path>>
    /\ Observe(p, "step")

\* ------------------------------------------------------ _release_lock
\* _release_lock is called by stop() (c = "stop") and by the rollback of
\* start() (c = "start")
RlPc(c, k) == IF c = "stop" THEN <<"stop_rl_test", "stop_rl_unlock", "stop_rl_clear",
                                   "stop_rl_exists", "stop_rl_unlink">>[k]
              ELSE <<"start_rl_test", "start_rl_unlock", "start_rl_clear",
                     "start_rl_exists", "start_rl_unlink">>[k]

\* _release_lock returns to its caller
ReleaseDone(p, t, c) ==
    IF c = "stop" THEN Goto(p, t, "stop_halt") /\ UNCHANGED ret
    ELSE Return(p, t, "start_false")

\* if self._lock_file:
ReleaseTest(p, t, c) ==
    /\ At(p, t, RlPc(c, 1))
    /\ IF lock_file[p] = NoFile THEN ReleaseDone(p, t, c)
       ELSE Goto(p, t, RlPc(c, 2)) /\ UNCHANGED ret
    /\ UNCHANGED <<ctx, fields, files>>
    /\ Observe(p, "step")

\* if not self._lock_file.closed: flock(LOCK_UN); close()
ReleaseUnlock(p, t, c) ==
    /\ At(p, t, RlPc(c, 2))
    /\ CASE lock_file[p] = NoFile ->
              \* None.closed raises; except Exception logs and returns
              /\ ReleaseDone(p, t, c)
              /\ UNCHANGED <<lock_file, flocked>>
         [] lock_file[p] = Closed ->
              /\ Goto(p, t, RlPc(c, 3))
              /\ UNCHANGED <<ret, lock_file, flocked>>
         [] OTHER ->
              /\ flocked' = DropHandle(p)
              /\ lock_file' = [lock_file EXCEPT ![p] = Closed]
              /\ Goto(p, t, RlPc(c, 3))
              /\ UNCHANGED ret
    /\ UNCHANGED <<ctx, running, stop_lock, reader_lock, reader_count,
                   auto_stop_scheduled, loop, timer, background_task,
                   runtime_started, auto_start, lock_file_path>>
    /\ Observe(p, "step")

\* self._lock_file = None
ReleaseClear(p, t, c) ==
    /\ At(p, t, RlPc(c, 3))
    /\ flocked' = DropHandle(p)
    /\ lock_file' = [lock_file EXCEPT ![p] = NoFile]
    /\ Goto(p, t, RlPc(c, 4))
    /\ UNCHANGED <<ctx, ret, running, stop_lock, reader_lock, reader_count,
                   auto_stop_scheduled, loop, timer, background_task,
                   runtime_started, auto_start, lock_file_path>>
    /\ Observe(p, "step")

\* if self._lock_file_path.exists():
ReleaseExists(p, t, c) ==
    /\ At(p, t, RlPc(c, 4))
    /\ IF lock_file_path # 0 THEN Goto(p, t, RlPc(c, 5)) /\ UNCHANGED ret
       ELSE ReleaseDone(p, t, c)
    /\ UNCHANGED <<ctx, fields, files>>
    /\ Observe(p, "step")

\* a release that leaves the lock file in place
ReleaseUnlinkSkipped(p, t, c) ==
    /\ At(p, t, RlPc(c, 5))
    /\ ReleaseDone(p, t, c)
    /\ UNCHANGED <<ctx, fields, files>>
    /\ Observe(p, "step")

\* self._lock_file_path.unlink(); FileNotFoundError is caught and logged
ReleaseUnlink(p, t, c) ==
    /\ At(p, t, RlPc(c, 5))
    /\ lock_file_path' = 0
    /\ ReleaseDone(p, t, c)
    /\ UNCHANGED <<ctx, fields, flocked>>
    /\ Observe(p, "step")

\* ---------------------------------------------------------------- start()
\* a start() that does not look at _running
StartEntryUnchecked(p, t) ==
    /\ pc' = [pc EXCEPT ![p][t] = "al_open"]
    /\ ret' = [ret EXCEPT ![p] = NoResult]

\* if self._running: return False
StartEntry(p, t) ==
    IF running[p] THEN Return(p, t, "start_false")
    ELSE /\ pc' = [pc EXCEPT ![p][t] = "al_open"]
         /\ ret' = [ret EXCEPT ![p] = NoResult]

\* self._running = True: the runtime is starting
SetRunning(p, t) ==
    /\ At(p, t, "start_set_running")
    /\ running' = [running EXCEPT ![p] = TRUE]
    /\ Goto(p, t, "start_ensure_loop")
    /\ UNCHANGED <<ctx, ret, lock_file, stop_lock, reader_lock, reader_count,
                   auto_stop_scheduled, loop, timer, background_task,
                   runtime_started, auto_start, files>>
    /\ Tracked(p, "step")

StartSetRunning(p, t) == SetRunning(p, t) /\ UNCHANGED <<hist, scoped>>

\* _ensure_event_loop, called from a thread that runs no loop: a new loop and
\* thread unless the old thread is still alive
EnsureEventLoop(p, t) ==
    /\ At(p, t, "start_ensure_loop")
    /\ IF loop[p] \in {"none", "dead"}
       THEN /\ loop' = [loop EXCEPT ![p] = "running"]
            /\ timer' = [timer EXCEPT ![p] = FALSE]
            /\ background_task' = [background_task EXCEPT ![p] =
                                     IF @ = "pending" THEN "stuck" ELSE @]
       ELSE UNCHANGED <<loop, timer, background_task>>
    /\ Goto(p, t, "start_await")
    /\ UNCHANGED <<ctx, ret, running, lock_file, stop_lock, reader_lock, reader_count,
                   auto_stop_scheduled, runtime_started, auto_start, files>>
    /\ Observe(p, "step")

\* _start_with_lock on the loop: a new task unless one is there and not done
StartWithLock(b) == IF b \in {"none", "done"} THEN "done" ELSE b

\* a start() whose rollback forgets self._running = False
StartAwaitStillRunning(p, t) ==
    /\ At(p, t, "start_await")
    /\ Goto(p, t, "start_rl_test")
    /\ UNCHANGED <<ctx, ret, fields, files>>
    /\ Observe(p, "step")

\* future = run_coroutine_threadsafe(self._start_with_lock(), self._loop)
\* future.result(timeout=5.0): the result, or the rollback's first statement
StartAwait(p, t) ==
    /\ At(p, t, "start_await")
    /\ \/ /\ \/ loop[p] = "running"
             \/ loop[p] = "stopping" /\ background_task[p] \in {"pending", "stuck"}
          /\ background_task' = [background_task EXCEPT ![p] = StartWithLock(@)]
          /\ Return(p, t, "start_true")
          /\ UNCHANGED running
       \/ /\ \E created \in BOOLEAN :
                background_task' = [background_task EXCEPT ![p] =
                    IF created /\ loop[p] \in {"running", "stopping"} /\ @ \in {"none", "done"}
                    THEN "pending" ELSE @]
          /\ running' = [running EXCEPT ![p] = FALSE]
          /\ Goto(p, t, "start_rl_test")
          /\ UNCHANGED ret
    /\ UNCHANGED <<ctx, lock_file, stop_lock, reader_lock, reader_count,
                   auto_stop_scheduled, loop, timer, runtime_started, auto_start, files>>
    /\ Observe(p, "step")

\* ----------------------------------------------------------------- stop()
\* with self._stop_lock:
StopAcquire(p, t) ==
    /\ At(p, t, "stop_wait")
    /\ stop_lock[p] = "free"
    /\ stop_lock' = [stop_lock EXCEPT ![p] = t]
    /\ Goto(p, t, "stop_check")
    /\ UNCHANGED <<ctx, ret, running, lock_file, reader_lock, reader_count,
                   auto_stop_scheduled, loop, timer, background_task,
                   runtime_started, auto_start, files>>
    /\ Observe(p, "step")

\* a stop() that tears down without looking at _running
StopCheckUnchecked(p, t) ==
    /\ At(p, t, "stop_check")
    /\ Goto(p, t, "stop_collectors")
    /\ UNCHANGED <<ctx, ret, fields, files>>
    /\ Observe(p, "step")

\* if not self._running: return False
StopCheck(p, t) ==
    /\ At(p, t, "stop_check")
    /\ IF running[p] THEN Goto(p, t, "stop_collectors") /\ UNCHANGED <<ret, stop_lock>>
       ELSE /\ stop_lock' = [stop_lock EXCEPT ![p] = "free"]
            /\ Return(p, t, "stop_false")
    /\ UNCHANGED <<ctx, running, lock_file, reader_lock, reader_count,
                   auto_stop_scheduled, loop, timer, background_task,
                   runtime_started, auto_start, files>>
    /\ Observe(p, "step")

\* the bounded wait for _stop_collectors_async (its failure is logged), then
\* self._running = False
StopCollectors(p, t) ==
    /\ At(p, t, "stop_collectors")
    /\ running' = [running EXCEPT ![p] = FALSE]
    /\ Goto(p, t, "stop_rl_test")
    /\ UNCHANGED <<ctx, ret, lock_file, stop_lock, reader_lock, reader_count,
                   auto_stop_scheduled, loop, timer, background_task,
                   runtime_started, auto_start, files>>
    /\ Observe(p, "step")

\* if self._loop and self._loop.is_running(): call_soon_threadsafe(loop.stop)
\* return True, leaving the with block
StopHalt(p, t) ==
    /\ At(p, t, "stop_halt")
    /\ loop' = [loop EXCEPT ![p] = IF @ = "running" THEN "stopping" ELSE @]
    /\ stop_lock' = [stop_lock EXCEPT ![p] = "free"]
    /\ Return(p, t, "stop_true")
    /\ UNCHANGED <<ctx, running, lock_file, reader_lock, reader_count,
                   auto_stop_scheduled, timer, background_task,
                   runtime_started, auto_start, files>>
    /\ Observe(p, "step")

\* ------------------------------------------------------ event-loop thread
\* run_forever returns after loop.stop(): the loop thread ends
LoopExit(p) ==
    /\ Alive(p)
    /\ loop[p] = "stopping"
    /\ loop' = [loop EXCEPT ![p] = "dead"]
    /\ UNCHANGED <<ctl, running, lock_file, stop_lock, reader_lock, reader_count,
                   auto_stop_scheduled, timer, background_task,
                   runtime_started, auto_start, files>>
    /\ Observe(p, "step")

\* a startup task that outlived the bounded wait completes on the live loop
TaskDone(p) ==
    /\ Alive(p)
    /\ loop[p] = "running"
    /\ background_task[p] = "pending"
    /\ background_task' = [background_task EXCEPT ![p] = "done"]
    /\ UNCHANGED <<ctl, running, lock_file, stop_lock, reader_lock, reader_count,
                   auto_stop_scheduled, loop, timer, runtime_started, auto_start, files>>
    /\ Observe(p, "step")

\* --------------------------------------------------------------- callers
\* runtime.start() called by the program
UserStart(p) ==
    /\ At(p, "main", "idle")
    /\ ctx' = [ctx EXCEPT ![p] = "user"]
    /\ StartEntry(p, "main")
    /\ UNCHANGED <<fields, files>>
    /\ Observe(p, "start")

\* runtime.stop() called by the program
UserStop(p) ==
    /\ At(p, "main", "idle")
    /\ ctx' = [ctx EXCEPT ![p] = "user"]
    /\ pc' = [pc EXCEPT ![p]["main"] = "stop_wait"]
    /\ ret' = [ret EXCEPT ![p] = NoResult]
    /\ UNCHANGED <<fields, files>>
    /\ Observe(p, "stop")

\* _initialize(): `runtime = get_runtime()` and `runtime.start()`
StartOnImport(p) ==
    /\ At(p, "main", "idle")
    /\ ctx' = [ctx EXCEPT ![p] = "init"]
    /\ IF running[p]
       THEN pc' = [pc EXCEPT ![p]["main"] = "init_done"]
            /\ ret' = [ret EXCEPT ![p] = [by |-> "main", val |-> "start_false"]]
       ELSE pc' = [pc EXCEPT ![p]["main"] = "al_open"]
            /\ ret' = [ret EXCEPT ![p] = NoResult]
    /\ UNCHANGED <<fields, files>>
    /\ Tracked(p, "start")

\* the package's _initialize(): start() once when auto_start is configured
Initialize(p) ==
    /\ ~runtime_started[p]
    /\ auto_start[p]
    /\ StartOnImport(p)
    /\ UNCHANGED <<hist, scoped>>

\* _runtime_started = True, once start() has returned
InitializeDone(p) ==
    /\ At(p, "main", "init_done")
    /\ runtime_started' = [runtime_started EXCEPT ![p] = TRUE]
    /\ ctx' = [ctx EXCEPT ![p] = "user"]
    /\ Goto(p, "main", "idle")
    /\ UNCHANGED <<ret, running, lock_file, stop_lock, reader_lock, reader_count,
                   auto_stop_scheduled, loop, timer, background_task, auto_start, files>>
    /\ Observe(p, "step")

\* signal_handler(signum, frame): self.stop(), on top of whatever the main
\* thread was doing
SignalHandler(p) ==
    /\ Alive(p)
    /\ pc[p]["sig"] = "idle"
    /\ pc' = [pc EXCEPT ![p]["sig"] = "stop_wait"]
    /\ ret' = [ret EXCEPT ![p] = NoResult]
    /\ UNCHANGED <<ctx, fields, files>>
    /\ Observe(p, "stop")

\* _cleanup_on_exit, the atexit hook: if self._running: self.stop()
CleanupOnExit(p) ==
    /\ At(p, "main", "idle")
    /\ ctx' = [ctx EXCEPT ![p] = "exit"]
    /\ pc' = [pc EXCEPT ![p]["main"] = IF running[p] THEN "stop_wait" ELSE "exit_done"]
    /\ ret' = [ret EXCEPT ![p] = NoResult]
    /\ UNCHANGED <<fields, files>>
    /\ Observe(p, "step")

\* the interpreter ends: daemon threads die where they are, the kernel closes
\* the process's descriptors
ProcessExit(p) ==
    /\ At(p, "main", "exit_done")
    /\ Goto(p, "main", "exited")
    /\ flocked' = DropHandle(p)
    /\ lock_file' = [lock_file EXCEPT ![p] = IF @ \in Inodes THEN Closed ELSE @]
    /\ UNCHANGED <<ctx, ret, running, stop_lock, reader_lock, reader_count,
                   auto_stop_scheduled, loop, timer, background_task,
                   runtime_started, auto_start, lock_file_path>>
    /\ Observe(p, "step")

\* ------------------------------------------------------------ reader count
\* a register_reader that calls start() when it takes the count from 0 to 1
\* on a stopped controller configured for auto_start
RegisterReaderStarting(p, t) ==
    /\ At(p, t, "idle")
    /\ reader_lock[p] = "free"
    /\ reader_count[p] < MaxReaders
    /\ reader_count' = [reader_count EXCEPT ![p] = @ + 1]
    /\ IF reader_count[p] = 0 /\ ~running[p] /\ auto_start[p]
       THEN pc' = [pc EXCEPT ![p][t] = "al_open"] /\ ret' = [ret EXCEPT ![p] = NoResult]
       ELSE UNCHANGED <<pc, ret>>
    /\ UNCHANGED <<ctx, running, lock_file, stop_lock, reader_lock,
                   auto_stop_scheduled, loop, timer, background_task,
                   runtime_started, auto_start, files>>
    /\ Tracked(p, "register")

\* register_reader: with self._reader_lock: self._reader_count += 1
RegisterReader(p, t) ==
    /\ At(p, t, "idle")
    /\ reader_lock[p] = "free"
    /\ reader_count[p] < MaxReaders
    /\ reader_count' = [reader_count EXCEPT ![p] = @ + 1]
    /\ UNCHANGED <<ctl, running, lock_file, stop_lock, reader_lock,
                   auto_stop_scheduled, loop, timer, background_task,
                   runtime_started, auto_start, files>>
    /\ Tracked(p, "register")

\* unregister_reader: with self._reader_lock: self._reader_count -= 1
UnregisterReader(p, t) ==
    /\ At(p, t, "idle")
    /\ reader_lock[p] = "free"
    /\ reader_lock' = [reader_lock EXCEPT ![p] = t]
    /\ reader_count' = [reader_count EXCEPT ![p] = @ - 1]
    /\ Goto(p, t, "unreg_floor")
    /\ UNCHANGED <<ctx, ret, running, lock_file, stop_lock,
                   auto_stop_scheduled, loop, timer, background_task,
                   runtime_started, auto_start, files>>
    /\ Tracked(p, "step")

\* an unregister_reader that schedules the stop at 0 but keeps the count it has
UnregisterNoFloor(p, t) ==
    /\ At(p, t, "unreg_floor")
    /\ IF reader_count[p] <= 0 /\ ~auto_stop_scheduled[p] /\ loop[p] \in {"running", "stopping"}
       THEN /\ auto_stop_scheduled' = [auto_stop_scheduled EXCEPT ![p] = TRUE]
            /\ timer' = [timer EXCEPT ![p] = TRUE]
       ELSE UNCHANGED <<auto_stop_scheduled, timer>>
    /\ reader_lock' = [reader_lock EXCEPT ![p] = "free"]
    /\ Goto(p, t, "idle")
    /\ UNCHANGED <<ctx, ret, running, lock_file, stop_lock, reader_count, loop,
                   background_task, runtime_started, auto_start, files>>
    /\ Observe(p, "release")

\* if self._reader_count <= 0: self._reader_count = 0, and schedule the
\* debounced stop unless one is scheduled or no loop is running
UnregisterFloor(p, t) ==
    /\ At(p, t, "unreg_floor")
    /\ IF reader_count[p] <= 0
       THEN /\ reader_count' = [reader_count EXCEPT ![p] = 0]
            /\ IF ~auto_stop_scheduled[p] /\ loop[p] \in {"running", "stopping"}
               THEN /\ auto_stop_scheduled' = [auto_stop_scheduled EXCEPT ![p] = TRUE]
                    /\ timer' = [timer EXCEPT ![p] = TRUE]
               ELSE UNCHANGED <<auto_stop_scheduled, timer>>
       ELSE UNCHANGED <<reader_count, auto_stop_scheduled, timer>>
    /\ reader_lock' = [reader_lock EXCEPT ![p] = "free"]
    /\ Goto(p, t, "idle")
    /\ UNCHANGED <<ctx, ret, running, lock_file, stop_lock, loop, background_task,
                   runtime_started, auto_start, files>>
    /\ Observe(p, "release")

\* _auto_stop_if_no_readers, the timer's callback on the loop thread:
\* threading.Thread(target=self.stop).start() when nobody reads and it runs
AutoStopIfNoReaders(p) ==
    /\ Alive(p)
    /\ timer[p]
    /\ loop[p] \in {"running", "stopping"}
    /\ reader_lock[p] = "free"
    /\ timer' = [timer EXCEPT ![p] = FALSE]
    /\ auto_stop_scheduled' = [auto_stop_scheduled EXCEPT ![p] = FALSE]
    /\ IF reader_count[p] = 0 /\ running[p]
       THEN /\ pc[p]["stopper"] = "idle"
            /\ pc' = [pc EXCEPT ![p]["stopper"] = "stop_wait"]
            /\ ret' = [ret EXCEPT ![p] = NoResult]
       ELSE UNCHANGED <<pc, ret>>
    /\ UNCHANGED <<ctx, running, lock_file, stop_lock, reader_lock, reader_count,
                   loop, background_task, runtime_started, auto_start, files>>
    /\ Observe(p, "step")

\* ------------------------------------------------------------ initial state
\* RuntimeController.__init__ in every process; no lock file on the host
InitFields ==
    /\ pc = [p \in Procs |-> [t \in Threads |-> "idle"]]
    /\ ctx = [p \in Procs |-> "user"]
    /\ ret = [p \in Procs |-> NoResult]
    /\ running = [p \in Procs |-> FALSE]
    /\ lock_file = [p \in Procs |-> NoFile]
    /\ stop_lock = [p \in Procs |-> "free"]
    /\ reader_lock = [p \in Procs |-> "free"]
    /\ reader_count = [p \in Procs |-> 0]
    /\ auto_stop_scheduled = [p \in Procs |-> FALSE]
    /\ loop = [p \in Procs |-> "none"]
    /\ timer = [p \in Procs |-> FALSE]
    /\ background_task = [p \in Procs |-> "none"]
    /\ runtime_started = [p \in Procs |-> FALSE]
    /\ lock_file_path = 0
    /\ flocked = [i \in Inodes |-> 0]

\* the threads that call get_runtime(); signal.signal may only be called by
\* the main thread
Callers == {"main", "w1", "w2"}

\* the outcomes of a get_runtime() call
NotBack == [kind |-> "none", inst |-> 0]
Raised == [kind |-> "raised", inst |-> 0]
Returned(i) == [kind |-> "returned", inst |-> i]

\* the controller of the process exists and is initialised (the package
\* imported by the main thread); nobody is inside get_runtime()
InitSingleton ==
    /\ g_runtime = 1
    /\ cls_instance = 1
    /\ init_lock = "free"
    /\ initialized = TRUE
    /\ init_runs = 1
    /\ sig_handlers = TRUE
    /\ exit_hooks = 1
    /\ gpc = [t \in Callers |-> "idle"]
    /\ got = [t \in Callers |-> NotBack]

\* no streaming task has been created
InitWatch ==
    /\ wpc = "none"
    /\ fails = 0
    /\ wrote = "none"
    /\ idx = 1
    /\ invoked = {}
    /\ raised = {}

\* launches of the program (bound), the symbols of the venue (bound) and the
\* kinds whose interval is configured
MaxStarts == 3
NSymbols == 2
Gens == 1 .. MaxStarts
Symbols == 1 .. NSymbols
Kinds == {"ticker", "orderbook"}
Combos == Symbols \X Kinds
Group == <<0, "group">>
TaskIds == Gens \X ({Group} \cup Combos)

\* DataCollector.__init__ with one enabled venue: nothing launched yet
InitOrch ==
    /\ is_running = FALSE
    /\ task_st = [id \in TaskIds |-> "none"]
    /\ listed = {}
    /\ awaited = {}
    /\ gnext = [g \in Gens |-> 1]
    /\ exchange = "closed"
    /\ spc = "idle"
    /\ tpc = "idle"
    /\ ready = <<>>
    /\ gen = 0
    /\ called = "none"
    /\ overlap = FALSE

\* the kinds of record, the shard each is stored in, and the inputs of a write
DataTypes == {"ticker", "ohlcv", "trades", "balance", "positions"}
Shards == {"public", "private"}
Shard(kind) == IF kind \in {"balance", "positions"} THEN "private" ELSE "public"
Payloads == {"p", "q"}
Timeframes == {"none", "1h"}

\* the clock stops at MaxTime (bound); a day has DayLen ticks, the cleanup
\* time of a day is CleanupAt ticks after midnight, retention_days is the
\* retention window (bound)
MaxTime == 6
DayLen == 4
CleanupAt == 1
retention_days == 1
Times == 0 .. MaxTime

\* a payload without 'timestamp'
NoTs == -1

\* empty database files, written at time 0
InitTables ==
    /\ tables = [k \in DataTypes |-> {}]
    /\ next_id = 1
    /\ mtime = [f \in Shards |-> 0]
    /\ result = "none"
    /\ log = <<>>

InitClients ==
    /\ pending = <<>>
    /\ fetched = [kind |-> "none", limit |-> 0, rows |-> <<>>]
    /\ resolved = {}
    /\ cleaned = [kind |-> "none", at |-> 0, writes |-> 0, n |-> 0]

\* the threads that use one DatabaseManager (bound)
NThreads == 2
Workers == 1 .. NThreads
Unlocked == 0
Resting == [at |-> "idle", shard |-> "none", conn |-> 0, op |-> "none"]

\* the data kinds the tasks of the collectors notify their observers with
Notified == {"ticker", "orderbook", "trade", "ohlcv", "balance", "order", "mytrade", "position"}
NoRecord == [kind |-> "none", asked |-> {}, invoked |-> {}]

\* no observer is registered and no record has been processed
InitObserving ==
    /\ callbacks = [k \in Notified |-> <<>>]
    /\ attached = [k \in Notified |-> <<>>]
    /\ delivered = NoRecord

\* no stop() has waited; the pool of the DatabaseManager is empty
InitPool ==
    /\ signalled = [p \in Procs |-> "none"]
    /\ db_lock = Unlocked
    /\ connections = [f \in Shards |-> 0]
    /\ made = [f \in Shards |-> 0]
    /\ dpc = [t \in Workers |-> Resting]
    /\ InitObserving

InitDatabase ==
    /\ InitTables
    /\ InitClients
    /\ InitPool
    /\ now = 0

InitApart ==
    /\ InitSingleton
    /\ InitWatch
    /\ InitOrch
    /\ InitDatabase

\* the main thread is inside no `with MarketDataReader()` block
InitScoped ==
    /\ scopes = [p \in Procs |-> <<>>]
    /\ exc = [p \in Procs |-> FALSE]
    /\ left = [p \in Procs |-> -1]

InitHistory ==
    /\ calm = "calm"
    /\ first = [p \in Procs |-> "none"]
    /\ hist = <<>>
    /\ dropped = [p \in Procs |-> FALSE]
    /\ contended = [p \in Procs |-> FALSE]
    /\ InitScoped
    /\ InitApart

\* ---------------------------------------- the processes of one host (Spec)
\* Each process calls start() and stop() from its main thread.
Init ==
    /\ InitFields
    /\ InitHistory
    /\ auto_start = [p \in Procs |-> FALSE]

\* the steps of start() and stop() a thread takes once inside
StartSteps(p, t) ==
    \/ AcquireOpen(p, t)
    \/ AcquireFlock(p, t)
    \/ StartSetRunning(p, t)
    \/ EnsureEventLoop(p, t)
    \/ StartAwait(p, t)
    \/ ReleaseTest(p, t, "start")
    \/ ReleaseUnlock(p, t, "start")
    \/ ReleaseClear(p, t, "start")
    \/ ReleaseExists(p, t, "start")
    \/ ReleaseUnlink(p, t, "start")

StopSteps(p, t) ==
    \/ StopAcquire(p, t)
    \/ StopCheck(p, t)
    \/ StopCollectors(p, t)
    \/ ReleaseTest(p, t, "stop")
    \/ ReleaseUnlock(p, t, "stop")
    \/ ReleaseClear(p, t, "stop")
    \/ ReleaseExists(p, t, "stop")
    \/ ReleaseUnlink(p, t, "stop")
    \/ StopHalt(p, t)

Next ==
    \E p \in Procs :
        \/ UserStart(p)
        \/ UserStop(p)
        \/ StartSteps(p, "main")
        \/ StopSteps(p, "main")
        \/ LoopExit(p)
        \/ TaskDone(p)

Spec == Init /\ [][Next]_vars

\* ------------------------------- first start() of every process (SpecRace)
\* Each process calls start() once, on a host where the lock is free.
StartOnce(p) ==
    /\ first[p] = "none"
    /\ UserStart(p)

NextRace ==
    \E p \in Procs :
        \/ StartOnce(p)
        \/ StartSteps(p, "main")
        \/ TaskDone(p)

SpecRace == Init /\ [][NextRace]_vars

\* ------------------------------------ the threads of one process (SpecProc)
\* Process 1 alone on the host: its main thread imports the package, calls
\* start(), stop(), register_reader() and unregister_reader() and exits;
\* signals interrupt it; the loop thread runs the timer; the thread spawned
\* by the auto-stop runs stop().
InitNoCalls ==
    /\ InitFields
    /\ calm = "no"
    /\ first = [p \in Procs |-> "none"]
    /\ hist = <<>>
    /\ dropped = [p \in Procs |-> FALSE]
    /\ contended = [p \in Procs |-> FALSE]
    /\ InitScoped

InitQuiet ==
    /\ InitNoCalls
    /\ InitApart

InitProc ==
    /\ InitQuiet
    /\ auto_start \in {f \in [Procs -> BOOLEAN] : \A p \in Procs \ {1} : ~f[p]}

\* MarketDataReader.__enter__
Register(p) == RegisterReader(p, "main") /\ UNCHANGED <<hist, scoped>>

\* MarketDataReader.__exit__, of a scope entered before
Unregister(p) ==
    /\ reader_count[p] > 0
    /\ UnregisterReader(p, "main")
    /\ UNCHANGED <<hist, scoped>>

NextProc ==
    \/ UserStart(1)
    \/ UserStop(1)
    \/ Initialize(1)
    \/ InitializeDone(1)
    \/ SignalHandler(1)
    \/ CleanupOnExit(1)
    \/ ProcessExit(1)
    \/ Register(1)
    \/ Unregister(1)
    \/ UnregisterFloor(1, "main")
    \/ AutoStopIfNoReaders(1)
    \/ LoopExit(1)
    \/ TaskDone(1)
    \/ StartSteps(1, "main")
    \/ \E t \in Threads : StopSteps(1, t)

SpecProc == InitProc /\ [][NextProc]_vars

\* ------------------- the reader count and the debounced stop (SpecAuto)
\* Process 1 alone on the host: its main thread calls start(), stop(),
\* register_reader() and unregister_reader(); the loop thread runs the timer;
\* the thread spawned by the auto-stop runs stop().  Threads that have begun a
\* call go on, the timer fires, and a thread waiting for a mutex gets it in
\* the end; the program is free to make no further call.
InitAuto ==
    /\ InitQuiet
    /\ auto_start = [p \in Procs |-> FALSE]

NextAuto ==
    \/ UserStart(1)
    \/ UserStop(1)
    \/ Register(1)
    \/ Unregister(1)
    \/ UnregisterFloor(1, "main")
    \/ AutoStopIfNoReaders(1)
    \/ LoopExit(1)
    \/ TaskDone(1)
    \/ StartSteps(1, "main")
    \/ StopSteps(1, "main")
    \/ StopSteps(1, "stopper")

FairAuto ==
    /\ WF_vars(UnregisterFloor(1, "main"))
    /\ SF_vars(AutoStopIfNoReaders(1))
    /\ WF_vars(LoopExit(1))
    /\ WF_vars(TaskDone(1))
    /\ WF_vars(StartSteps(1, "main"))
    /\ SF_vars(StopSteps(1, "main"))
    /\ SF_vars(StopSteps(1, "stopper"))

SpecAuto == InitAuto /\ [][NextAuto]_vars /\ FairAuto

\* ------------------------------- sequences of reader calls (SpecCount)
\* As SpecAuto without explicit stop(), the register/unregister calls recorded
\* in hist, MaxOps of them at most.
RegisterCall(p) ==
    /\ Len(hist) < MaxOps
    /\ RegisterReader(p, "main")
    /\ hist' = Append(hist, "acquire")
    /\ UNCHANGED scoped

ReleaseCall(p) ==
    /\ Len(hist) < MaxOps
    /\ UnregisterReader(p, "main")
    /\ hist' = Append(hist, "release")
    /\ UNCHANGED scoped

NextCount ==
    \/ UserStart(1)
    \/ RegisterCall(1)
    \/ ReleaseCall(1)
    \/ UnregisterFloor(1, "main")
    \/ AutoStopIfNoReaders(1)
    \/ LoopExit(1)
    \/ TaskDone(1)
    \/ StartSteps(1, "main")
    \/ StopSteps(1, "stopper")

SpecCount == InitAuto /\ [][NextCount]_vars

\* ------------------------------------ MarketDataReader scopes (SpecScope)
\* Process 1: the main thread enters and leaves `with MarketDataReader()`
\* blocks, nested, and a block's body may raise; start(), the timer and the
\* auto-stop thread run beside it.
\* __enter__: register_reader(), return self
EnterScope(p) ==
    /\ ~exc[p]
    /\ RegisterReader(p, "main")
    /\ scopes' = [scopes EXCEPT ![p] = Append(@, reader_count[p])]
    /\ left' = [left EXCEPT ![p] = -1]
    /\ UNCHANGED <<hist, exc>>

\* the body of the innermost block raises
BodyRaises(p) ==
    /\ At(p, "main", "idle")
    /\ scopes[p] # <<>>
    /\ ~exc[p]
    /\ exc' = [exc EXCEPT ![p] = TRUE]
    /\ UNCHANGED <<ctl, fields, files, history, scopes, left, apart>>

\* a LeaveScope that skips the release when the body raised
LeaveScopeLeaky(p) ==
    /\ scopes[p] # <<>>
    /\ IF exc[p]
       THEN At(p, "main", "idle") /\ UNCHANGED <<ctl, fields, files, history, apart>>
       ELSE UnregisterReader(p, "main") /\ UNCHANGED hist
    /\ scopes' = [scopes EXCEPT ![p] = SubSeq(@, 1, Len(@) - 1)]
    /\ left' = [left EXCEPT ![p] = scopes[p][Len(scopes[p])]]
    /\ UNCHANGED exc

\* the block is left, by its end or by the exception: __exit__ calls
\* unregister_reader() and returns False, so the exception goes on
LeaveScope(p) ==
    /\ scopes[p] # <<>>
    /\ UnregisterReader(p, "main")
    /\ scopes' = [scopes EXCEPT ![p] = SubSeq(@, 1, Len(@) - 1)]
    /\ left' = [left EXCEPT ![p] = scopes[p][Len(scopes[p])]]
    /\ UNCHANGED <<hist, exc>>

\* the exception has left the outermost block: the program handles it
Handled(p) ==
    /\ At(p, "main", "idle")
    /\ scopes[p] = <<>>
    /\ exc[p]
    /\ exc' = [exc EXCEPT ![p] = FALSE]
    /\ UNCHANGED <<ctl, fields, files, history, scopes, left, apart>>

NextScope ==
    \/ UserStart(1)
    \/ EnterScope(1)
    \/ BodyRaises(1)
    \/ LeaveScope(1)
    \/ Handled(1)
    \/ UnregisterFloor(1, "main")
    \/ AutoStopIfNoReaders(1)
    \/ LoopExit(1)
    \/ TaskDone(1)
    \/ StartSteps(1, "main")
    \/ StopSteps(1, "stopper")

SpecScope == InitAuto /\ [][NextScope]_vars

\* ------------------------------- the package imported again (SpecImport)
\* Process 1 alone on the host: its main thread imports the package, which
\* runs _initialize(), runs _initialize() again, and calls start() and stop()
\* in between.  hist records each run of _initialize() ("import") and each
\* time the runtime becomes starting, under the call that made it so ("init"
\* for _initialize(), "user" for the program); MaxOps calls at most.
Imported == hist # <<>>

\* the mutant of ImportPackage: _runtime_started is not consulted
ImportPackageUnguarded(p) ==
    /\ Len(hist) < MaxOps
    /\ IF auto_start[p]
       THEN StartOnImport(p)
       ELSE /\ At(p, "main", "idle")
            /\ UNCHANGED <<ctl, fields, files, calm, first, dropped, contended, apart>>
    /\ hist' = Append(hist, "import")
    /\ UNCHANGED scoped

\* one run of _initialize(): at import, and whenever it is run again
ImportPackage(p) ==
    /\ Len(hist) < MaxOps
    /\ IF ~runtime_started[p] /\ auto_start[p]
       THEN StartOnImport(p)
       ELSE /\ At(p, "main", "idle")
            /\ UNCHANGED <<ctl, fields, files, calm, first, dropped, contended, apart>>
    /\ hist' = Append(hist, "import")
    /\ UNCHANGED scoped

\* self._running = True, recorded with the call it belongs to
Starting(p) ==
    /\ SetRunning(p, "main")
    /\ hist' = Append(hist, ctx[p])
    /\ UNCHANGED scoped

\* the program's own start() and stop(), once the package is imported
StartCall(p) ==
    /\ Imported
    /\ Len(hist) < MaxOps
    /\ UserStart(p)

StopCall(p) ==
    /\ Imported
    /\ UserStop(p)

NextImport ==
    \/ ImportPackage(1)
    \/ InitializeDone(1)
    \/ StartCall(1)
    \/ StopCall(1)
    \/ AcquireOpen(1, "main")
    \/ AcquireFlock(1, "main")
    \/ Starting(1)
    \/ EnsureEventLoop(1, "main")
    \/ StartAwait(1, "main")
    \/ ReleaseTest(1, "main", "start")
    \/ ReleaseUnlock(1, "main", "start")
    \/ ReleaseClear(1, "main", "start")
    \/ ReleaseExists(1, "main", "start")
    \/ ReleaseUnlink(1, "main", "start")
    \/ StopSteps(1, "main")
    \/ LoopExit(1)
    \/ TaskDone(1)

SpecImport == InitProc /\ [][NextImport]_vars


\* ------------------------------ the first get_runtime() calls (SpecSingleton)
\* The threads of one process call get_runtime() while no controller exists
\* yet, and call it again afterwards.  The instance is numbered by the
\* constructions done so far: 1 is the first object super().__new__ made.
InitNone ==
    /\ InitNoCalls
    /\ InitWatch
    /\ InitOrch
    /\ InitDatabase
    /\ auto_start = [p \in Procs |-> FALSE]
    /\ g_runtime = 0
    /\ cls_instance = 0
    /\ init_lock = "free"
    /\ initialized = FALSE
    /\ init_runs = 0
    /\ sig_handlers = FALSE
    /\ exit_hooks = 0
    /\ gpc = [t \in Callers |-> "idle"]
    /\ got = [t \in Callers |-> NotBack]

Rest == <<ctl, fields, files, history, scoped, watching, orch, database, clients, waits, pool, observing>>

\* get_runtime(): `if _runtime is None:`
GetCheck(t) ==
    /\ gpc[t] = "idle"
    /\ gpc' = [gpc EXCEPT ![t] = IF g_runtime = 0 THEN "locking" ELSE "return"]
    /\ got' = [got EXCEPT ![t] = NotBack]
    /\ UNCHANGED <<g_runtime, cls_instance, init_lock, initialized, init_runs,
                   sig_handlers, exit_hooks, Rest>>

\* `with _runtime_init_lock:`
GetLock(t) ==
    /\ gpc[t] = "locking"
    /\ init_lock = "free"
    /\ init_lock' = t
    /\ gpc' = [gpc EXCEPT ![t] = "check"]
    /\ UNCHANGED <<g_runtime, cls_instance, initialized, init_runs,
                   sig_handlers, exit_hooks, got, Rest>>

\* the second `if _runtime is None:`, inside the lock
GetRecheck(t) ==
    /\ gpc[t] = "check"
    /\ IF g_runtime = 0
       THEN /\ gpc' = [gpc EXCEPT ![t] = "new"]
            /\ UNCHANGED init_lock
       ELSE /\ gpc' = [gpc EXCEPT ![t] = "return"]
            /\ init_lock' = "free"
    /\ UNCHANGED <<g_runtime, cls_instance, initialized, init_runs,
                   sig_handlers, exit_hooks, got, Rest>>

\* RuntimeController.__new__: the object is made when _instance is None
New(t) ==
    /\ gpc[t] = "new"
    /\ cls_instance' = IF cls_instance = 0 THEN 1 ELSE cls_instance
    /\ gpc' = [gpc EXCEPT ![t] = "init"]
    /\ UNCHANGED <<g_runtime, init_lock, initialized, init_runs,
                   sig_handlers, exit_hooks, got, Rest>>

\* RuntimeController.__init__: `if hasattr(self, '_initialized'): return`,
\* else _initialized = True and the fields are reset
InitGuard(t) ==
    /\ gpc[t] = "init"
    /\ IF initialized
       THEN /\ gpc' = [gpc EXCEPT ![t] = "assign"]
            /\ UNCHANGED <<initialized, init_runs>>
       ELSE /\ initialized' = TRUE
            /\ init_runs' = init_runs + 1
            /\ gpc' = [gpc EXCEPT ![t] = "signals"]
    /\ UNCHANGED <<g_runtime, cls_instance, init_lock, sig_handlers,
                   exit_hooks, got, Rest>>

\* _register_signal_handlers(): signal.signal raises ValueError in a thread
\* other than the main one; the exception leaves __init__, the `with` block
\* (which releases the lock) and get_runtime()
RegisterSignalHandlers(t) ==
    /\ gpc[t] = "signals"
    /\ IF t = "main"
       THEN /\ sig_handlers' = TRUE
            /\ gpc' = [gpc EXCEPT ![t] = "atexit"]
            /\ UNCHANGED <<init_lock, got>>
       ELSE /\ init_lock' = "free"
            /\ got' = [got EXCEPT ![t] = Raised]
            /\ gpc' = [gpc EXCEPT ![t] = "idle"]
            /\ UNCHANGED sig_handlers
    /\ UNCHANGED <<g_runtime, cls_instance, initialized, init_runs,
                   exit_hooks, Rest>>

\* atexit.register(self._cleanup_on_exit)
RegisterExitHook(t) ==
    /\ gpc[t] = "atexit"
    /\ exit_hooks' = exit_hooks + 1
    /\ gpc' = [gpc EXCEPT ![t] = "assign"]
    /\ UNCHANGED <<g_runtime, cls_instance, init_lock, initialized, init_runs,
                   sig_handlers, got, Rest>>

\* `_runtime = RuntimeController()` and the end of the `with` block
GetAssign(t) ==
    /\ gpc[t] = "assign"
    /\ g_runtime' = cls_instance
    /\ init_lock' = "free"
    /\ gpc' = [gpc EXCEPT ![t] = "return"]
    /\ UNCHANGED <<cls_instance, initialized, init_runs, sig_handlers,
                   exit_hooks, got, Rest>>

\* `return _runtime`
GetReturn(t) ==
    /\ gpc[t] = "return"
    /\ got' = [got EXCEPT ![t] = Returned(g_runtime)]
    /\ gpc' = [gpc EXCEPT ![t] = "idle"]
    /\ UNCHANGED <<g_runtime, cls_instance, init_lock, initialized, init_runs,
                   sig_handlers, exit_hooks, Rest>>

NextSingleton ==
    \E t \in Callers :
        \/ GetCheck(t)
        \/ GetLock(t)
        \/ GetRecheck(t)
        \/ New(t)
        \/ InitGuard(t)
        \/ RegisterSignalHandlers(t)
        \/ RegisterExitHook(t)
        \/ GetAssign(t)
        \/ GetReturn(t)

SpecSingleton == InitNone /\ [][NextSingleton]_vars

\* ------------------------------------- one streaming task (SpecWatch)
\* The task PublicDataCollector creates for one symbol's ticker stream, with
\* the callbacks registered for 'ticker'.  The exchange delivers a record or
\* raises, insert_data returns True or False, a callback returns or raises,
\* and stop() may cancel the task at any await.
NObservers == 2
Observers == 1 .. NObservers

\* the retry count given to retry_on_failure
max_retries == 3

\* errors in a row the exchange is made to deliver
MaxFails == 5

Controller == <<ctl, fields, files, history, scoped, singleton, orch, database, clients,
               waits, pool, observing>>

\* asyncio.create_task(self._watch_ticker(symbol, interval)): the wrapper of
\* retry_on_failure calls the async function, which returns a coroutine
\* without running its body; nothing raises inside the wrapper's try, the
\* wrapper returns the coroutine at attempt 0
WrapperCall ==
    /\ wpc = "none"
    /\ wpc' = "watch"
    /\ UNCHANGED <<fails, wrote, idx, invoked, raised, Controller>>

\* ticker = await self.exchange.watch_ticker(symbol): a record, or an
\* exception caught by `except Exception` of the loop
WatchTicker(ok) ==
    /\ wpc = "watch"
    /\ IF ok
       THEN /\ wpc' = "insert"
            /\ UNCHANGED fails
       ELSE /\ fails < MaxFails
            /\ wpc' = "backoff"
            /\ fails' = fails + 1
    /\ wrote' = "none"
    /\ idx' = 1
    /\ invoked' = {}
    /\ raised' = {}
    /\ UNCHANGED Controller

\* self.db_manager.insert_data(...): True, or False on any error; the task
\* does not look at the value
InsertData(ok) ==
    /\ wpc = "insert"
    /\ wrote' = IF ok THEN "ok" ELSE "failed"
    /\ wpc' = "notify"
    /\ UNCHANGED <<fails, idx, invoked, raised, Controller>>

\* the mutant of NotifyCallback: no try/except around the callback
NotifyCallbackUncaught(raises) ==
    /\ wpc = "notify"
    /\ idx <= NObservers
    /\ invoked' = invoked \cup {idx}
    /\ raised' = IF raises THEN raised \cup {idx} ELSE raised
    /\ idx' = idx + 1
    /\ wpc' = IF raises THEN "backoff" ELSE "notify"
    /\ UNCHANGED <<fails, wrote, Controller>>

\* _notify_callbacks: one turn of `for callback in self.callbacks[data_type]`
NotifyCallback(raises) ==
    /\ wpc = "notify"
    /\ idx <= NObservers
    /\ invoked' = invoked \cup {idx}
    /\ raised' = IF raises THEN raised \cup {idx} ELSE raised
    /\ idx' = idx + 1
    /\ UNCHANGED <<wpc, fails, wrote, Controller>>

\* the end of _notify_callbacks; the record went through
NotifyDone ==
    /\ wpc = "notify"
    /\ idx > NObservers
    /\ wpc' = "sleep"
    /\ fails' = 0
    /\ UNCHANGED <<wrote, idx, invoked, raised, Controller>>

\* await asyncio.sleep(0.1), then the next turn of `while True`
WatchSleep ==
    /\ wpc = "sleep"
    /\ wpc' = "watch"
    /\ UNCHANGED <<fails, wrote, idx, invoked, raised, Controller>>

\* the handler of the loop: the error is logged, await asyncio.sleep(interval),
\* then the next turn of `while True`
WatchBackoff ==
    /\ wpc = "backoff"
    /\ wpc' = "watch"
    /\ UNCHANGED <<fails, wrote, idx, invoked, raised, Controller>>

\* task.cancel(): CancelledError is raised at the await the task waits in and
\* is no Exception, the task ends
WatchCancelled ==
    /\ wpc \in {"watch", "sleep", "backoff"}
    /\ wpc' = "cancelled"
    /\ UNCHANGED <<fails, wrote, idx, invoked, raised, Controller>>

NextWatch ==
    \/ WrapperCall
    \/ \E ok \in BOOLEAN : WatchTicker(ok)
    \/ \E ok \in BOOLEAN : InsertData(ok)
    \/ \E raises \in BOOLEAN : NotifyCallback(raises)
    \/ NotifyDone
    \/ WatchSleep
    \/ WatchBackoff
    \/ WatchCancelled

InitWatching ==
    /\ InitNoCalls
    /\ InitApart
    /\ auto_start = [p \in Procs |-> FALSE]

SpecWatch == InitWatching /\ [][NextWatch]_vars

\* ------------------------------------- the orchestrator (SpecOrch)
\* A DataCollector with one enabled venue of NSymbols spot symbols, on one
\* event loop.  The program calls start() and stop() as it likes, a call of
\* one kind at a time, MaxStarts launches at most; between two awaits a
\* coroutine runs alone.
Runtime == <<ctl, fields, files, history, scoped, singleton, watching, database, clients,
            waits, pool, observing>>

\* the mutant of OrchStart: is_running is not consulted
OrchStartUnguarded ==
    /\ spc = "idle"
    /\ gen + Len(SelectSeq(ready, LAMBDA c : c = "S")) < MaxStarts
    /\ is_running' = TRUE
    /\ spc' = "sched"
    /\ ready' = Append(ready, "S")
    /\ called' = "none"
    /\ overlap' = (overlap \/ tpc # "idle")
    /\ UNCHANGED <<task_st, listed, awaited, gnext, exchange, tpc, gen, Runtime>>

\* DataCollector.start() up to its await: nothing when already running, else
\* is_running = True and a task for collector.start()
OrchStart ==
    /\ spc = "idle"
    /\ IF is_running
       THEN /\ called' = "skipped"
            /\ UNCHANGED <<is_running, spc, ready, overlap>>
       ELSE /\ gen < MaxStarts
            /\ is_running' = TRUE
            /\ spc' = "sched"
            /\ ready' = Append(ready, "S")
            /\ called' = "none"
            /\ overlap' = (overlap \/ tpc # "idle")
    /\ UNCHANGED <<task_st, listed, awaited, gnext, exchange, tpc, gen, Runtime>>

\* PublicDataCollector.start(): the group task for the spot symbols
CollectorStart ==
    /\ spc = "sched"
    /\ ready # <<>>
    /\ Head(ready) = "S"
    /\ ready' = Tail(ready)
    /\ gen' = gen + 1
    /\ task_st' = [task_st EXCEPT ![<<gen + 1, Group>>] = "live"]
    /\ listed' = listed \cup {<<gen + 1, Group>>}
    /\ spc' = "gather"
    /\ UNCHANGED <<is_running, awaited, gnext, exchange, tpc, called, overlap, Runtime>>

\* asyncio.gather of DataCollector.start() is over, start() returns
OrchStartReturn ==
    /\ spc = "gather"
    /\ spc' = "idle"
    /\ called' = "launched"
    /\ UNCHANGED <<is_running, task_st, listed, awaited, gnext, exchange, tpc,
                   ready, gen, overlap, Runtime>>

\* _collect_spot_data: one turn of `for symbol in symbols`, a task per kind,
\* up to its await asyncio.sleep(0.1); past the last symbol it sleeps for good
GroupLaunch(g) ==
    /\ task_st[<<g, Group>>] = "live"
    /\ gnext[g] <= NSymbols
    /\ task_st' = [id \in TaskIds |->
                     IF id[1] = g /\ id[2] \in {gnext[g]} \X Kinds
                     THEN "live" ELSE task_st[id]]
    /\ listed' = listed \cup ({g} \X ({gnext[g]} \X Kinds))
    /\ gnext' = [gnext EXCEPT ![g] = @ + 1]
    /\ UNCHANGED <<is_running, awaited, exchange, spc, tpc, ready, gen, called,
                   overlap, Runtime>>

\* a streaming task waits for its stream: the connection is opened on demand
WatchStream(id) ==
    /\ id[2] # Group
    /\ task_st[id] = "live"
    /\ exchange = "closed"
    /\ exchange' = "open"
    /\ UNCHANGED <<is_running, task_st, listed, awaited, gnext, spc, tpc, ready,
                   gen, called, overlap, Runtime>>

\* DataCollector.stop() up to its await: nothing when not running, else
\* is_running = False and a task for collector.stop()
OrchStop ==
    /\ tpc = "idle"
    /\ IF ~is_running
       THEN /\ called' = "idle"
            /\ UNCHANGED <<is_running, tpc, ready>>
       ELSE /\ is_running' = FALSE
            /\ tpc' = "sched"
            /\ ready' = Append(ready, "T")
            /\ called' = "none"
    /\ UNCHANGED <<task_st, listed, awaited, gnext, exchange, spc, gen, overlap, Runtime>>

\* PublicDataCollector.stop(): cancel() on every task of self.tasks, then
\* await asyncio.gather(*self.tasks, return_exceptions=True)
CollectorStopCancel ==
    /\ tpc = "sched"
    /\ ready # <<>>
    /\ Head(ready) = "T"
    /\ ready' = Tail(ready)
    /\ task_st' = [id \in TaskIds |->
                     IF id \in listed /\ task_st[id] = "live"
                     THEN "cancelling" ELSE task_st[id]]
    /\ awaited' = listed
    /\ tpc' = "gather"
    /\ UNCHANGED <<is_running, listed, gnext, exchange, spc, gen, called, overlap, Runtime>>

\* a cancelled task gets CancelledError at its await and ends
TaskCancelled(id) ==
    /\ task_st[id] = "cancelling"
    /\ task_st' = [task_st EXCEPT ![id] = "done"]
    /\ UNCHANGED <<is_running, listed, awaited, gnext, exchange, spc, tpc, ready,
                   gen, called, overlap, Runtime>>

\* the mutant of CollectorStopClose: the tasks are not awaited
CollectorStopCloseUnawaited ==
    /\ tpc = "gather"
    /\ exchange' = "closed"
    /\ tpc' = "clear"
    /\ UNCHANGED <<is_running, task_st, listed, awaited, gnext, spc, ready, gen,
                   called, overlap, Runtime>>

\* the gather is over: await self.exchange.close(), an error of which is
\* caught and logged
CollectorStopClose ==
    /\ tpc = "gather"
    /\ \A id \in awaited : task_st[id] = "done"
    /\ exchange' = "closed"
    /\ tpc' = "clear"
    /\ UNCHANGED <<is_running, task_st, listed, awaited, gnext, spc, ready, gen,
                   called, overlap, Runtime>>

\* self.tasks.clear()
CollectorStopClear ==
    /\ tpc = "clear"
    /\ listed' = {}
    /\ tpc' = "return"
    /\ UNCHANGED <<is_running, task_st, awaited, gnext, exchange, spc, ready, gen,
                   called, overlap, Runtime>>

\* asyncio.gather of DataCollector.stop() is over, stop() returns
OrchStopReturn ==
    /\ tpc = "return"
    /\ tpc' = "idle"
    /\ called' = "stopped"
    /\ UNCHANGED <<is_running, task_st, listed, awaited, gnext, exchange, spc,
                   ready, gen, overlap, Runtime>>

NextOrch ==
    \/ OrchStart
    \/ CollectorStart
    \/ OrchStartReturn
    \/ \E g \in Gens : GroupLaunch(g)
    \/ \E id \in TaskIds : WatchStream(id)
    \/ OrchStop
    \/ CollectorStopCancel
    \/ \E id \in TaskIds : TaskCancelled(id)
    \/ CollectorStopClose
    \/ CollectorStopClear
    \/ OrchStopReturn

SpecOrch == InitWatching /\ [][NextOrch]_vars

\* ------------------------------------- the database manager
\* One DatabaseManager with the file of one symbol (public kinds) and the
\* file of one account (private kinds), cleanup enabled.
Collectors == <<ctl, fields, files, history, scoped, singleton, watching, orch, waits, pool, observing>>

Day(t) == t \div DayLen

\* now.replace(hour=cleanup_hour, minute=cleanup_minute, ...)
CleanupToday(t) == Day(t) * DayLen + CleanupAt

\* datetime.now() - timedelta(days=self.retention_days)
Cutoff(t) == t - retention_days * DayLen

\* data.get('timestamp', int(time.time() * 1000))
Stamp(data, t) == IF data.ts = NoTs THEN t ELSE data.ts

\* the mutant of Conflicts: every table keyed by timestamp and timeframe
ConflictsByTime(kind, r, s) == r.ts = s.ts /\ r.tf = s.tf

\* the UNIQUE constraint of each table; positions has none
Conflicts(kind, r, s) ==
    CASE kind = "ticker" -> r.ts = s.ts
      [] kind = "ohlcv" -> r.ts = s.ts /\ r.tf = s.tf
      [] kind = "trades" -> r.ts = s.ts /\ r.data = s.data
      [] kind = "balance" -> Day(r.ts) = Day(s.ts)
      [] OTHER -> FALSE

\* the mutant of Replaced: a plain INSERT that keeps the rows in conflict
Inserted(kind, table, row) == table \cup {row}

\* INSERT OR REPLACE (INSERT for positions): the rows in conflict go
Replaced(kind, table, row) == {r \in table : ~Conflicts(kind, r, row)} \cup {row}

\* the mutant of Swept: the row at the cutoff goes as well
SweptThrough(table, t) == {r \in table : r.ts > Cutoff(t)}

\* DELETE FROM {data_type} WHERE timestamp < cutoff_time
Swept(table, t) == {r \in table : r.ts >= Cutoff(t)}

\* the test of _check_if_cleanup_needed at time t on a file written at m
CleanupDue(t, m) == t >= CleanupToday(t) /\ m < CleanupToday(t)

\* the mutant of InsertData: an error of the body is not caught
DbInsertUncaught(kind, data, tf, fail, d) ==
    /\ now + d <= MaxTime
    /\ LET ts == Stamp(data, now)
           bad == fail \/ (kind = "ohlcv" /\ tf = "none")
           row == [id |-> next_id, ts |-> ts,
                   tf |-> IF kind = "ohlcv" THEN tf ELSE "none", data |-> data]
           written == Replaced(kind, tables[kind], row)
           due == CleanupDue(now + d, now)
       IN  /\ tables' = [tables EXCEPT ![kind] =
                           IF bad THEN @ ELSE IF due THEN Swept(written, now + d) ELSE written]
           /\ next_id' = IF bad THEN next_id ELSE next_id + 1
           /\ mtime' = IF bad THEN mtime
                       ELSE [mtime EXCEPT ![Shard(kind)] =
                               IF due /\ Swept(written, now + d) # written
                               THEN now + d ELSE now]
           /\ result' = IF bad THEN "raised" ELSE "true"
           /\ log' = Append(log, [kind |-> kind, ts |-> ts, tf |-> tf, data |-> data,
                                  ok |-> ~bad, swept |-> ~bad /\ due, at |-> now + d])
    /\ now' = now + d
    /\ UNCHANGED Collectors

\* insert_data(exchange, symbol, kind, data, user_id, timeframe): `fail` is an
\* error raised in the body (shard not resolvable, payload not serialisable,
\* store error), d the time that passes between the commit and the test of
\* _check_if_cleanup_needed
DbInsert(kind, data, tf, fail, d) ==
    /\ now + d <= MaxTime
    /\ LET ts == Stamp(data, now)
           bad == fail \/ (kind = "ohlcv" /\ tf = "none")
           row == [id |-> next_id, ts |-> ts,
                   tf |-> IF kind = "ohlcv" THEN tf ELSE "none", data |-> data]
           written == Replaced(kind, tables[kind], row)
           due == CleanupDue(now + d, now)
       IN  /\ tables' = [tables EXCEPT ![kind] =
                           IF bad THEN @ ELSE IF due THEN Swept(written, now + d) ELSE written]
           /\ next_id' = IF bad THEN next_id ELSE next_id + 1
           /\ mtime' = IF bad THEN mtime
                       ELSE [mtime EXCEPT ![Shard(kind)] =
                               IF due /\ Swept(written, now + d) # written
                               THEN now + d ELSE now]
           /\ result' = IF bad THEN "false" ELSE "true"
           /\ log' = Append(log, [kind |-> kind, ts |-> ts, tf |-> tf, data |-> data,
                                  ok |-> ~bad, swept |-> ~bad /\ due, at |-> now + d])
    /\ now' = now + d
    /\ UNCHANGED Collectors

\* time passes
Tick ==
    /\ now < MaxTime
    /\ now' = now + 1
    /\ UNCHANGED <<tables, next_id, mtime, result, log, clients, Collectors>>

\* ------------------------------------- two writes (SpecUpsert)
\* Up to MaxWrites insert_data() calls of any kind but balance, at two
\* timestamps a day apart or without timestamp, at any time of the day.
MaxWrites == 2
Stamps == {0, DayLen, NoTs}
Records == [v : Payloads, ts : Stamps]

Write(kind, data, tf, fail, d) ==
    /\ Len(log) < MaxWrites
    /\ DbInsert(kind, data, tf, fail, d)
    /\ UNCHANGED clients

InitUpsert ==
    /\ InitNoCalls
    /\ InitSingleton
    /\ InitWatch
    /\ InitOrch
    /\ InitTables
    /\ InitClients
    /\ InitPool
    /\ now \in Times
    /\ auto_start = [p \in Procs |-> FALSE]

NextUpsert ==
    \E kind \in DataTypes \ {"balance"}, data \in Records, tf \in Timeframes,
       fail \in BOOLEAN, d \in {0, 1} :
        Write(kind, data, tf, fail, d)

SpecUpsert == InitUpsert /\ [][NextUpsert]_vars

\* ------------------------------------- the trade stream (SpecTrades)
\* _watch_trades of one symbol: watch_trades() delivers a trade or a list of
\* trades, and after a resubscription may deliver a trade again. Each trade
\* is stamped with the time of its receipt and stored. The observers are
\* notified after each store; they are not part of this specification.
Trades == {"t1", "t2"}
MaxTrades == 3
Batches == {<<t>> : t \in Trades} \cup {<<t, u>> : t \in Trades, u \in Trades}

\* trades = await self.exchange.watch_trades(symbol)
WatchTrades(batch) ==
    /\ pending = <<>>
    /\ Len(log) + Len(batch) <= MaxTrades
    /\ pending' = batch
    /\ UNCHANGED <<database, fetched, resolved, cleaned, Collectors>>

\* one turn of `for trade in trades`: trade['timestamp'] = now, insert_data
TradeStore(fail) ==
    /\ pending # <<>>
    /\ DbInsert("trades", [v |-> Head(pending), ts |-> now], "none", fail, 0)
    /\ pending' = Tail(pending)
    /\ UNCHANGED <<fetched, resolved, cleaned>>

InitTrades ==
    /\ InitNoCalls
    /\ InitApart
    /\ auto_start = [p \in Procs |-> FALSE]

NextTrades ==
    \/ \E batch \in Batches : WatchTrades(batch)
    \/ \E fail \in BOOLEAN : TradeStore(fail)
    \/ Tick

SpecTrades == InitTrades /\ [][NextTrades]_vars

\* ------------------------------------- reading (SpecRead)
\* Up to MaxRows writes of tickers and candles at three timestamps, and
\* get_data() with any limit, with and without a timeframe.
MaxRows == 3
MaxLimit == 3
Limits == -1 .. MaxLimit
ReadKinds == {"ticker", "ohlcv"}
ReadRecords == [v : {"p"}, ts : 0 .. 2]
ReadTimeframes == {"none", "1h", "4h"}
TimeframesOf(kind) == IF kind = "ohlcv" THEN ReadTimeframes ELSE {"none"}

\* the mutant of Ordered: the rows in any order
Unordered(S) ==
    {q \in [1 .. Cardinality(S) -> S] : \A i, j \in DOMAIN q : i # j => q[i] # q[j]}

\* ORDER BY timestamp DESC: the rows of S newest first, those of one
\* timestamp in any order
Ordered(S) ==
    {q \in [1 .. Cardinality(S) -> S] :
        /\ \A i, j \in DOMAIN q : i # j => q[i] # q[j]
        /\ \A i, j \in DOMAIN q : i < j => q[i].ts >= q[j].ts}

\* LIMIT n: the first n rows, all of them when n is negative
Limited(q, n) ==
    IF n < 0 \/ n >= Len(q) THEN q ELSE SubSeq(q, 1, n)

\* WHERE symbol = ? [AND timeframe = ?]
Selected(kind, tf) ==
    {r \in tables[kind] : (kind = "ohlcv" /\ tf # "none") => r.tf = tf}

\* get_data(exchange, symbol, kind, limit, timeframe=tf)
GetData(kind, tf, limit) ==
    /\ \E q \in Ordered(Selected(kind, tf)) :
        fetched' = [kind |-> kind, limit |-> limit, rows |-> Limited(q, limit)]
    /\ UNCHANGED <<database, pending, resolved, cleaned, Collectors>>

ReadWrite(kind, data, tf) ==
    /\ Len(log) < MaxRows
    /\ DbInsert(kind, data, tf, FALSE, 0)
    /\ UNCHANGED clients

NextRead ==
    \/ \E kind \in ReadKinds, data \in ReadRecords :
        \E tf \in TimeframesOf(kind) : ReadWrite(kind, data, tf)
    \/ \E kind \in ReadKinds, limit \in Limits :
        \E tf \in TimeframesOf(kind) : GetData(kind, tf, limit)

SpecRead == InitTrades /\ [][NextRead]_vars

\* ------------------------------------- balances (SpecBalance)
\* Up to MaxBalances balance writes of one account, stamped at two times of
\* one day, on the next day, or not at all, from any time of the clock.
MaxBalances == 3
BalanceRecords == [v : Payloads, ts : {0, 1, DayLen, NoTs}]

BalanceWrite(data, fail, d) ==
    /\ Len(log) < MaxBalances
    /\ DbInsert("balance", data, "none", fail, d)
    /\ UNCHANGED clients

NextBalance ==
    \E data \in BalanceRecords, fail \in BOOLEAN, d \in {0, 1} :
        BalanceWrite(data, fail, d)

SpecBalance == InitUpsert /\ [][NextBalance]_vars

\* ------------------------------------- shards (SpecPath)
\* _get_db_path on up to MaxResolved requests. A string is a sequence of
\* tokens; a path is the directory under data_dir/exchange and the file name.
MaxResolved == 2
MaxIdLen == 3
IdTokens == {"a", "default", "_"}
UserIds == UNION {[1 .. n -> IdTokens] : n \in 1 .. MaxIdLen}
PathSymbols == {<<>>, <<"BTC", "/", "USDT">>, <<"BTC", "/", "USDT", ":", "USDT">>}
PathKinds == {"ticker", "trades", "balance", "positions"}
PublicKinds == {"ticker", "orderbook", "trades", "ohlcv"}
PrivateKinds == {"balance", "orders", "mytrades", "positions"}
Requests == [kind : PathKinds, symbol : PathSymbols, user_id : UserIds]

Has(str, c) == \E i \in DOMAIN str : str[i] = c
First(str, c) == CHOOSE i \in DOMAIN str : str[i] = c /\ \A j \in 1 .. i - 1 : str[j] # c

\* str.split(c, 1): what precedes the first c, and what follows it
Before(str, c) == SubSeq(str, 1, First(str, c) - 1)
After(str, c) == SubSeq(str, First(str, c) + 1, Len(str))

\* str.replace('/', '_')
Safe(str) == [i \in DOMAIN str |-> IF str[i] = "/" THEN "_" ELSE str[i]]

\* symbol.split(':')[1]
Settlement(symbol) ==
    LET rest == After(symbol, ":")
    IN  IF Has(rest, ":") THEN Before(rest, ":") ELSE rest

\* the mutant of PrivateName: the file is named after the account alone
AccountName(user_id) ==
    (IF Has(user_id, "_") THEN After(user_id, "_") ELSE user_id) \o <<".db">>

\* f"{api_prefix}_{account_name}.db"
PrivateName(user_id) ==
    LET api_prefix == IF Has(user_id, "_") THEN Before(user_id, "_") ELSE <<"default">>
        account_name == IF Has(user_id, "_") THEN After(user_id, "_") ELSE user_id
    IN  api_prefix \o <<"_">> \o account_name \o <<".db">>

GetDbPath(symbol, data_type, user_id) ==
    IF data_type \in PublicKinds
    THEN IF Has(symbol, ":")
         THEN <<"futures", Safe(Before(symbol, ":")) \o <<"_">> \o Settlement(symbol) \o <<".db">>>>
         ELSE <<"spot", Safe(symbol) \o <<".db">>>>
    ELSE IF data_type \in PrivateKinds
         THEN <<"private", PrivateName(user_id)>>
         ELSE <<"private", user_id \o <<"_", "private", ".db">>>>

Resolve(req) ==
    /\ Cardinality(resolved) < MaxResolved
    /\ resolved' = resolved \cup
         {[req |-> req, path |-> GetDbPath(req.symbol, req.kind, req.user_id)]}
    /\ UNCHANGED <<database, pending, fetched, cleaned, Collectors>>

NextPath == \E req \in Requests : Resolve(req)

SpecPath == InitTrades /\ [][NextPath]_vars

\* ------------------------------------- the retention sweep (SpecSweep)
\* Up to MaxWrites writes of tickers and positions stamped at time 0, a day
\* later or at the time of the write, up to MaxSweeps runs of
\* _check_and_cleanup_old_data on one of the two tables, while time passes.
MaxSweeps == 2
SweepKinds == {"ticker", "positions"}
SweepRecords == [v : {"p"}, ts : Stamps]

\* _check_and_cleanup_old_data(db_path, kind)
Cleanup(kind) ==
    /\ cleaned.n < MaxSweeps
    /\ tables' = [tables EXCEPT ![kind] = Swept(@, now)]
    /\ mtime' = [mtime EXCEPT ![Shard(kind)] =
                   IF Swept(tables[kind], now) # tables[kind] THEN now ELSE @]
    /\ cleaned' = [kind |-> kind, at |-> now, writes |-> Len(log), n |-> cleaned.n + 1]
    /\ UNCHANGED <<next_id, now, result, log, pending, fetched, resolved, Collectors>>

NextSweep ==
    \/ \E kind \in SweepKinds, data \in SweepRecords, d \in {0, 1} :
        Write(kind, data, "none", FALSE, d)
    \/ \E kind \in SweepKinds : Cleanup(kind)
    \/ Tick

SpecSweep == InitTrades /\ [][NextSweep]_vars

\* ------------------------- the wait of stop() for the collectors (SpecStop)
\* Process 1 alone on the host, its main thread calling start() and stop()
\* from outside any event loop; how the bounded wait of stop() ends is kept
\* in signalled.
\* how future.result(timeout=5.0) of _stop_collectors_async can end: on a
\* halting loop the coroutine never runs; without a running loop it is not
\* submitted
WaitOutcomes(p) ==
    CASE loop[p] = "running" -> {"ok", "raised", "timeout"}
      [] loop[p] = "stopping" -> {"timeout"}
      [] OTHER -> {"skipped"}

Failed == {"raised", "timeout"}

\* a stop() that lets the failure of its wait leave the call
StopSignalledAborting(p, t, outcome) ==
    /\ At(p, t, "stop_collectors")
    /\ outcome \in WaitOutcomes(p)
    /\ signalled' = [signalled EXCEPT ![p] = outcome]
    /\ IF outcome \in Failed
       THEN /\ stop_lock' = [stop_lock EXCEPT ![p] = "free"]
            /\ Return(p, t, "stop_raise")
            /\ UNCHANGED running
       ELSE /\ running' = [running EXCEPT ![p] = FALSE]
            /\ Goto(p, t, "stop_rl_test")
            /\ UNCHANGED <<ret, stop_lock>>
    /\ UNCHANGED <<ctx, lock_file, reader_lock, reader_count,
                   auto_stop_scheduled, loop, timer, background_task,
                   runtime_started, auto_start, files>>
    /\ Recorded(p, "step")
    /\ UNCHANGED <<hist, scoped, singleton, watching, orch, database, clients, pool, observing>>

\* if self._loop and self._loop.is_running(): the bounded wait for
\* _stop_collectors_async, `except Exception` logging its failure; then
\* self._running = False
StopSignalled(p, t, outcome) ==
    /\ At(p, t, "stop_collectors")
    /\ outcome \in WaitOutcomes(p)
    /\ signalled' = [signalled EXCEPT ![p] = outcome]
    /\ running' = [running EXCEPT ![p] = FALSE]
    /\ Goto(p, t, "stop_rl_test")
    /\ UNCHANGED <<ctx, ret, lock_file, stop_lock, reader_lock, reader_count,
                   auto_stop_scheduled, loop, timer, background_task,
                   runtime_started, auto_start, files>>
    /\ Recorded(p, "step")
    /\ UNCHANGED <<hist, scoped, singleton, watching, orch, database, clients, pool, observing>>

NextStop ==
    \/ UserStart(1)
    \/ UserStop(1)
    \/ StartSteps(1, "main")
    \/ StopAcquire(1, "main")
    \/ StopCheck(1, "main")
    \/ \E outcome \in {"ok", "raised", "timeout", "skipped"} : StopSignalled(1, "main", outcome)
    \/ ReleaseTest(1, "main", "stop")
    \/ ReleaseUnlock(1, "main", "stop")
    \/ ReleaseClear(1, "main", "stop")
    \/ ReleaseExists(1, "main", "stop")
    \/ ReleaseUnlink(1, "main", "stop")
    \/ StopHalt(1, "main")
    \/ LoopExit(1)
    \/ TaskDone(1)

SpecStop == InitAuto /\ [][NextStop]_vars

\* ----------------------- calls from inside the event loop (SpecInside)
\* Process 1 alone on the host; every call of the program is made by a
\* coroutine running on an event loop of the main thread, so the loop runs
\* nothing else until the call returns.
\* runtime.start() called by a coroutine
AsyncStart(p) ==
    /\ At(p, "main", "idle")
    /\ ctx' = [ctx EXCEPT ![p] = "loop"]
    /\ StartEntry(p, "main")
    /\ UNCHANGED <<fields, files>>
    /\ Observe(p, "start")

\* runtime.stop() called by a coroutine
AsyncStop(p) ==
    /\ At(p, "main", "idle")
    /\ ctx' = [ctx EXCEPT ![p] = "loop"]
    /\ pc' = [pc EXCEPT ![p]["main"] = "stop_wait"]
    /\ ret' = [ret EXCEPT ![p] = NoResult]
    /\ UNCHANGED <<fields, files>>
    /\ Observe(p, "stop")

\* _ensure_event_loop: self._loop = asyncio.get_running_loop(), the caller's
EnsureRunningLoop(p, t) ==
    /\ At(p, t, "start_ensure_loop")
    /\ ctx[p] = "loop"
    /\ loop' = [loop EXCEPT ![p] = "running"]
    /\ Goto(p, t, "start_await")
    /\ UNCHANGED <<ctx, ret, running, lock_file, stop_lock, reader_lock, reader_count,
                   auto_stop_scheduled, timer, background_task,
                   runtime_started, auto_start, files>>
    /\ Observe(p, "step")

\* run_coroutine_threadsafe(self._start_with_lock(), self._loop) queues the
\* coroutine on the caller's own loop and future.result(timeout=5.0) blocks
\* that loop's thread: the coroutine cannot run, the wait times out, and the
\* rollback begins with self._running = False
StartAwaitBlocked(p, t) ==
    /\ At(p, t, "start_await")
    /\ ctx[p] = "loop"
    /\ running' = [running EXCEPT ![p] = FALSE]
    /\ Goto(p, t, "start_rl_test")
    /\ UNCHANGED <<ctx, ret, lock_file, stop_lock, reader_lock, reader_count,
                   auto_stop_scheduled, loop, timer, background_task,
                   runtime_started, auto_start, files>>
    /\ Observe(p, "step")

\* the timer's callback runs on the caller's loop once the coroutine yields
TimerFires(p) ==
    /\ pc[p]["main"] = "idle"
    /\ AutoStopIfNoReaders(p)

NextInside ==
    \/ AsyncStart(1)
    \/ AsyncStop(1)
    \/ AcquireOpen(1, "main")
    \/ AcquireFlock(1, "main")
    \/ StartSetRunning(1, "main")
    \/ EnsureRunningLoop(1, "main")
    \/ StartAwaitBlocked(1, "main")
    \/ ReleaseTest(1, "main", "start")
    \/ ReleaseUnlock(1, "main", "start")
    \/ ReleaseClear(1, "main", "start")
    \/ ReleaseExists(1, "main", "start")
    \/ ReleaseUnlink(1, "main", "start")
    \/ StopAcquire(1, "main")
    \/ StopCheck(1, "main")
    \/ Register(1)
    \/ Unregister(1)
    \/ UnregisterFloor(1, "main")
    \/ TimerFires(1)

SpecInside == InitAuto /\ [][NextInside]_vars

\* -------------------------------------------------- observers of the orchestrator
\* DataCollector.register_callback passes an observer on to the public
\* collectors for three kinds and to the private collectors for three other
\* kinds; an observer of any other kind stays in DataCollector.callbacks only.
MaxRegistered == 2
ToPublic == {"ticker", "orderbook", "trade"}
ToPrivate == {"balance", "order", "position"}
Observing == <<ctl, fields, files, history, scoped, singleton, watching, orch,
               database, clients, waits, pool>>
RECURSIVE Registered(_)
Registered(kinds) ==
    IF kinds = {} THEN 0
    ELSE LET k == CHOOSE x \in kinds : TRUE
         IN  Len(callbacks[k]) + Registered(kinds \ {k})
Elements(s) == {s[i] : i \in DOMAIN s}

RegisterCallback(kind, cb) ==
    /\ Registered(Notified) < MaxRegistered
    /\ callbacks' = [callbacks EXCEPT ![kind] = Append(@, cb)]
    /\ attached' = IF kind \in ToPublic \cup ToPrivate
                   THEN [attached EXCEPT ![kind] = Append(@, cb)]
                   ELSE attached
    /\ UNCHANGED <<delivered, Observing>>

\* a task of the kind has stored a record and calls _notify_callbacks of its
\* collector: every callback of the collector's list is called, one that raises
\* is logged and the loop goes on
NotifyCallbacks(kind) ==
    /\ delivered' = [kind |-> kind,
                     asked |-> Elements(callbacks[kind]),
                     invoked |-> Elements(attached[kind])]
    /\ UNCHANGED <<callbacks, attached, Observing>>

NextObserve ==
    \/ \E kind \in Notified, cb \in Observers : RegisterCallback(kind, cb)
    \/ \E kind \in Notified : NotifyCallbacks(kind)
SpecObserve == InitAuto /\ [][NextObserve]_vars

\* ------------------------------------------------ the pool of one DatabaseManager
\* Threads call insert_data, get_data and the sweep of one DatabaseManager.
\* Each call asks _get_connection for the connection of its shard, runs its
\* statements on it and commits.  Only _get_connection takes self.lock.
Calls == {"insert_data", "get_data", "cleanup"}
Pooling == <<ctl, fields, files, history, scoped, singleton, watching, orch,
             database, clients, waits, observing>>
InCall(t, at) == dpc[t].at = at
Move(t, at) == dpc' = [dpc EXCEPT ![t].at = at]

\* the call has its shard path and enters _get_connection
DbCall(t, f, op) ==
    /\ InCall(t, "idle")
    /\ dpc' = [dpc EXCEPT ![t] = [at |-> "lock", shard |-> f, conn |-> 0, op |-> op]]
    /\ UNCHANGED <<signalled, db_lock, connections, made, Pooling>>

LockEnterUnguarded(t) ==
    /\ InCall(t, "lock")
    /\ db_lock' = t
    /\ Move(t, "check")
    /\ UNCHANGED <<signalled, connections, made, Pooling>>

\* with self.lock:
LockEnter(t) ==
    /\ InCall(t, "lock")
    /\ db_lock = Unlocked
    /\ db_lock' = t
    /\ Move(t, "check")
    /\ UNCHANGED <<signalled, connections, made, Pooling>>

\* if db_path_str not in self.connections:
PoolCheck(t) ==
    /\ InCall(t, "check")
    /\ Move(t, IF connections[dpc[t].shard] = 0 THEN "connect" ELSE "return")
    /\ UNCHANGED <<signalled, db_lock, connections, made, Pooling>>

\* sqlite3.connect(...) and self.connections[db_path_str] = conn: the
\* connections opened on a shard are numbered in the order they are opened
PoolConnect(t) ==
    /\ InCall(t, "connect")
    /\ made' = [made EXCEPT ![dpc[t].shard] = @ + 1]
    /\ connections' = [connections EXCEPT ![dpc[t].shard] = made'[dpc[t].shard]]
    /\ Move(t, "return")
    /\ UNCHANGED <<signalled, db_lock, Pooling>>

\* return self.connections[db_path_str], leaving the with block
PoolReturn(t) ==
    /\ InCall(t, "return")
    /\ dpc' = [dpc EXCEPT ![t].at = "execute", ![t].conn = connections[dpc[t].shard]]
    /\ db_lock' = Unlocked
    /\ UNCHANGED <<signalled, connections, made, Pooling>>

\* conn.cursor() and the cursor.execute(...) statements of the call
Execute(t) ==
    /\ InCall(t, "execute")
    /\ Move(t, "commit")
    /\ UNCHANGED <<signalled, db_lock, connections, made, Pooling>>

\* conn.commit() (fetchall() in get_data) and the return of the call
Commit(t) ==
    /\ InCall(t, "commit")
    /\ dpc' = [dpc EXCEPT ![t] = Resting]
    /\ UNCHANGED <<signalled, db_lock, connections, made, Pooling>>

NextPool ==
    \E t \in Workers :
        \/ \E f \in Shards, op \in Calls : DbCall(t, f, op)
        \/ LockEnter(t)
        \/ PoolCheck(t)
        \/ PoolConnect(t)
        \/ PoolReturn(t)
        \/ Execute(t)
        \/ Commit(t)
SpecPool == InitAuto /\ [][NextPool]_vars


\* ------------------------------------------------------------------ claims
\* C1: at every moment at most one process holds the Lock Token (LOCK_EX
\* through a live handle), whatever the interleaving of start() and stop(),
\* a start() overlapping another process's unlock/close/unlink included.
C1_AtMostOneHolder == Cardinality({p \in Procs : HoldsToken(p)}) <= 1

\* two processes have each completed their first start() and nobody else has
\* begun one
TwoStarted(p, q) ==
    /\ p # q
    /\ first[p] # "none"
    /\ first[q] # "none"
    /\ \A r \in Procs \ {p, q} : first[r] = "none" /\ pc[r]["main"] = "idle"

OneWinner(p, q) ==
    /\ {first[p], first[q]} = {"start_true", "start_false"}
    /\ lock_file_path # 0

Max0(n) == IF n < 0 THEN 0 ELSE n

Count(h, x) == Cardinality({k \in 1..Len(h) : h[k] = x})

\* the count a sequence of calls leaves when every release floors at 0
RECURSIVE CountAfter(_)
CountAfter(h) ==
    IF h = <<>> THEN 0
    ELSE LET c == CountAfter(SubSeq(h, 1, Len(h) - 1))
         IN IF h[Len(h)] = "acquire" THEN c + 1 ELSE Max0(c - 1)

\* C3 (as amended): after every finite sequence of register_reader() and
\* unregister_reader() calls from count 0, the count is the result of applying
\* the calls in order, +1 for an acquire and -1 floored at 0 for a release;
\* it is not negative once the calls have returned.
C3_CountFollowsFlooredSteps ==
    reader_lock[1] = "free" => reader_count[1] = CountAfter(hist) /\ reader_count[1] >= 0

\* C3 witness: a release at count 0 was followed by an acquire
C3_Witness ==
    /\ reader_lock[1] = "free"
    /\ Len(hist) >= 2
    /\ hist[1] = "release"
    /\ hist[2] = "acquire"
    /\ reader_count[1] = 1

\* C3 as stated: after the sequence the count equals #acquire - #release
\* floored at 0, and is never negative.
C3_AsStated ==
    /\ reader_count[1] >= 0
    /\ reader_lock[1] = "free" =>
          reader_count[1] = Max0(Count(hist, "acquire") - Count(hist, "release"))

\* the program counters of a thread inside start()
StartPcs == {"al_open", "al_flock", "start_set_running", "start_ensure_loop", "start_await",
             "start_rl_test", "start_rl_unlock", "start_rl_clear", "start_rl_exists",
             "start_rl_unlink"}

\* a register_reader() of process p takes place
Registers(p) == reader_count[p] >= 0 /\ reader_count'[p] = reader_count[p] + 1

\* C4 (as amended): register_reader() only increments the count: it performs
\* no start(), whether the runtime is stopped or running and whatever
\* auto_start says; is_running() and the lock are as before.
C4_RegisterStartsNothing ==
    [][\A p \in Procs : Registers(p) =>
          /\ pc' = pc
          /\ running' = running
          /\ loop' = loop
          /\ lock_file' = lock_file
          /\ UNCHANGED files]_vars

\* C4 witness: the count went from 0 to 1 on a stopped controller configured
\* for auto_start, and the controller is still stopped
C4_Witness ==
    /\ auto_start[1]
    /\ reader_count[1] = 1
    /\ ~running[1]
    /\ loop[1] = "none"
    /\ \A t \in Threads : pc[1][t] = "idle"

\* C4 as stated: a register_reader() that moves the count from 0 to 1 while
\* the runtime is stopped and auto_start is configured calls start().
C4_AsStated ==
    [][\A p \in Procs :
          Registers(p) /\ reader_count[p] = 0 /\ ~running[p] /\ auto_start[p]
              => pc'[p]["main"] \in StartPcs]_vars

\* C5: when unregister_reader() brings the count to 0 while the runtime is
\* running and no register_reader() follows, is_running() eventually becomes
\* false.
C5_AutoStopEventually == dropped[1] ~> ~dropped[1]

\* the thread spawned by the auto-stop begins the teardown in process p
AutoStopTearsDown(p) ==
    /\ pc[p]["stopper"] = "stop_collectors"
    /\ pc'[p]["stopper"] = "stop_rl_test"

\* C6: a register_reader() issued before the debounced stop has executed
\* cancels it: the auto-stop path performs no stop() while the count is above
\* 0, whatever the interleaving with the timer callback and its thread.
C6_NoAutoStopWithReaders ==
    [][\A p \in Procs : AutoStopTearsDown(p) => reader_count[p] = 0]_vars

\* a stop() of process p returns true
StopReturnsTrue(p) ==
    \E t \in Threads : pc[p][t] = "stop_halt" /\ pc'[p][t] # "stop_halt"

\* no start() of process p is under way or has succeeded
NotRestarted(p) == ~running[p] /\ \A t \in Threads : pc[p][t] \notin StartPcs

C8_NoLockFileLeftAtExit ==
    \A p \in Procs : pc[p]["main"] = "exited" => lock_file_path = 0

\* a call of start() in process p: it goes on to open the lock file, or it
\* returns false at once
StartCalled(p) ==
    /\ pc[p]["main"] = "idle"
    /\ \/ pc'[p]["main"] = "al_open"
       \/ /\ pc'[p]["main"] \in {"idle", "init_done"}
          /\ ret'[p] = [by |-> "main", val |-> "start_false"]
          /\ ret'[p] # ret[p]

\* C9: start() on a controller that is already running returns false and
\* changes nothing: is_running() stays true, the lock stays held, the reader
\* count, the event loop and the background task are as before.
C9_StartWhileRunningChangesNothing ==
    [][\A p \in Procs : running[p] /\ StartCalled(p) =>
          /\ ret'[p] = [by |-> "main", val |-> "start_false"]
          /\ running'[p]
          /\ HoldsToken(p) => HoldsToken(p)'
          /\ lock_file'[p] = lock_file[p]
          /\ UNCHANGED files
          /\ reader_count'[p] = reader_count[p]
          /\ loop'[p] = loop[p]
          /\ background_task'[p] = background_task[p]]_vars

\* C9 witness: start() has returned false on a running controller that holds
\* the lock
C9_Witness ==
    /\ pc[1]["main"] = "idle"
    /\ ret[1] = [by |-> "main", val |-> "start_false"]
    /\ running[1]
    /\ HoldsToken(1)

\* the flock step of a start() in p during which another process held the
\* token all along
DeniedStart(p) ==
    /\ pc[p]["main"] = "al_flock"
    /\ pc'[p]["main"] # "al_flock"
    /\ contended[p]

\* C10: start() called while another process holds the Lock Token returns
\* false and leaves the controller as it was: not running, no lock handle
\* kept, no event loop created, reader count unchanged.
C10_DeniedStartChangesNothing ==
    [][\A p \in Procs : DeniedStart(p) =>
          /\ ret'[p] = [by |-> "main", val |-> "start_false"]
          /\ ~running'[p]
          /\ lock_file'[p] = NoFile
          /\ loop'[p] = loop[p]
          /\ reader_count'[p] = reader_count[p]]_vars

\* the program counters of the rollback of start()
RollbackPcs == {"start_rl_test", "start_rl_unlock", "start_rl_clear", "start_rl_exists",
                "start_rl_unlink"}

\* the program counters of _release_lock called by stop()
StopReleasePcs == {"stop_rl_test", "stop_rl_unlock", "stop_rl_clear", "stop_rl_exists",
                   "stop_rl_unlink"}

\* the start() of process p returns from its rollback
RolledBack(p) == pc[p]["main"] \in RollbackPcs /\ pc'[p]["main"] \notin StartPcs

TeardownPcs == {"stop_collectors", "stop_halt"} \cup StopReleasePcs

\* thread u of process p is past the mutex of a stop() it called before the
\* stop() of another thread returned true; no call was made since and no
\* start() overlapped them
SecondStop(p, u) ==
    /\ pc[p][u] = "stop_check"
    /\ pc'[p][u] # "stop_check"
    /\ ret[p].val = "stop_true"
    /\ ret[p].by # u
    /\ NotRestarted(p)

\* C12 (as amended): of two threads that call stop() concurrently on a
\* running controller, with no start() overlapping them, one executes the
\* teardown and returns true; the other waits for the mutex, finds the
\* controller stopped, tears nothing down and returns false.  At no time are
\* two threads inside the teardown.
C12_SecondStopReturnsFalse ==
    [][\A p \in Procs :
          /\ Cardinality({t \in Threads : pc'[p][t] \in TeardownPcs}) <= 1
          /\ \A u \in Threads : SecondStop(p, u) =>
                /\ ret'[p] = [by |-> u, val |-> "stop_false"]
                /\ pc'[p][u] \notin TeardownPcs
                /\ UNCHANGED <<running, lock_file, loop, files>>]_vars

\* C12 witness: the stop() of the auto-stop thread has returned true and the
\* main thread, which called stop() meanwhile, has the mutex
C12_Witness ==
    /\ ret[1] = [by |-> "stopper", val |-> "stop_true"]
    /\ pc[1]["main"] = "stop_check"
    /\ stop_lock[1] = "main"
    /\ ~running[1]

\* C12 as stated: the second of two concurrent callers of stop() observes the
\* outcome of the first, true.
C12_AsStated ==
    [][\A p \in Procs : \A u \in Threads : SecondStop(p, u) =>
          ret'[p] = [by |-> u, val |-> "stop_true"]]_vars

\* C13: leaving a MarketDataReader scope releases exactly once, whether the
\* body ended normally or raised: outside any call the count is the nesting
\* depth, after a scope is left the count is the one seen before entering it,
\* and leaving a scope does not swallow the exception.
C13_ScopeRestoresCount ==
    [][\A p \in Procs :
          /\ pc'[p]["main"] = "idle" =>
                /\ reader_count'[p] = Len(scopes'[p])
                /\ left'[p] # -1 => reader_count'[p] = left'[p]
          /\ Len(scopes'[p]) < Len(scopes[p]) => exc'[p] = exc[p]]_vars

\* C13 witness: an exception raised inside a scope of a running controller
\* has left the outermost scope, and the count is back to the 0 seen before it
C13_Witness ==
    /\ pc[1]["main"] = "idle"
    /\ exc[1]
    /\ scopes[1] = <<>>
    /\ left[1] = 0
    /\ reader_count[1] = 0
    /\ running[1]

\* C14: the controller is created once per process: every first get_runtime()
\* call made by the threads of the process returns (none raises), all return
\* the same instance, and by the time a call has returned the body of
\* __init__ has run exactly once, signal handlers and exit hook registered.
C14_OneInstanceInitialisedOnce ==
    \A t \in Callers :
        /\ got[t] # Raised
        /\ got[t].kind = "returned" =>
              /\ got[t].inst = 1
              /\ init_runs = 1
              /\ sig_handlers
              /\ exit_hooks = 1

\* how often the runtime became starting under _initialize()
RECURSIVE Starts(_, _)
Starts(h, by) ==
    IF h = <<>> THEN 0
    ELSE (IF Head(h) = by THEN 1 ELSE 0) + Starts(Tail(h), by)

\* C15: with auto_start configured, however often the package is imported or
\* _initialize() runs in the process, the runtime becomes starting under
\* _initialize() at most once, and exactly once by the time the first run of
\* _initialize() is over; the program's stop() in between changes nothing.
C15_ImportsStartOnce ==
    auto_start[1] =>
        /\ Starts(hist, "init") <= 1
        /\ runtime_started[1] => Starts(hist, "init") = 1

\* _initialize() has run again after the runtime it started was stopped, and
\* the runtime is still stopped
C15_Witness ==
    /\ auto_start[1]
    /\ Len(hist) >= 3
    /\ hist[1] = "import"
    /\ hist[2] = "init"
    /\ hist[Len(hist)] = "import"
    /\ Starts(hist, "user") = 0
    /\ pc[1]["main"] = "idle"
    /\ ~running[1]

\* C16: a streaming task whose subscription keeps failing re-subscribes at
\* most max_retries times in a row: it never waits for the stream again with
\* more than max_retries errors behind it.
C16_RetriesBounded == wpc = "watch" => fails <= max_retries

\* C17: the callbacks of a kind are called for a record only after its
\* write succeeded; none is called for a record whose insert_data returned
\* False.
C17_NotifiedOnlyAfterWrite == invoked # {} => wrote = "ok"

\* C18: an exception raised by a callback does not reach the streaming task:
\* from _notify_callbacks the task goes on to its sleep of 0.1 s and the next
\* record, never to the error handler of its loop, and by then every callback
\* of the kind was called for the record, those after a raising one included.
C18_ObserverFailuresContained ==
    [][wpc = "notify" =>
          /\ wpc' \in {"notify", "sleep"}
          /\ wpc' = "sleep" => invoked' = Observers]_vars

\* the first callback raised, the second was called, the task sleeps before
\* its next record
C18_Witness ==
    /\ wpc = "sleep"
    /\ 1 \in raised
    /\ 2 \in invoked
    /\ fails = 0

\* the tasks launched and not yet over
Unfinished == {id \in TaskIds : task_st[id] \in {"live", "cancelling"}}

Live(c) == {g \in Gens : task_st[<<g, c>>] = "live"}

C29_RunningHoldsToken == running[1] => HoldsToken(1)

\* C30: a stop() entered by the signal handler on top of a frame that is
\* inside stop() (the program's or the exit hook's) returns: the handler never
\* waits for _stop_lock while the frame it interrupted holds it, a state that
\* neither of the two can leave.
C30_ReentrantStopReturns == ~(pc[1]["sig"] = "stop_wait" /\ stop_lock[1] = "main")

\* the last two insert_data() calls succeeded with the same kind, timestamp
\* and timeframe and different payloads
SameKeyTwice ==
    /\ Len(log) >= 2
    /\ LET a == log[Len(log) - 1]
           b == log[Len(log)]
       IN  /\ a.ok /\ b.ok
           /\ a.kind = b.kind /\ a.ts = b.ts /\ a.tf = b.tf
           /\ a.data.v # b.data.v

\* the rows stored under the key of the last call
LastKeyRows ==
    LET b == log[Len(log)]
    IN  {r \in tables[b.kind] : r.ts = b.ts /\ (b.kind = "ohlcv" => r.tf = b.tf)}

\* C21: after two successful insert_data() calls with the same timestamp (and
\* timeframe for candles) and different payloads, for the kinds with a
\* UNIQUE key of timestamp and symbol (ticker, orderbook, candles), the key has
\* no row but the second call's, and has that row unless the sweep the
\* second call ran removed it as older than the retention window.
C21_SecondWriteReplaces ==
    (SameKeyTwice /\ log[Len(log)].kind \in {"ticker", "ohlcv"}) =>
        LET b == log[Len(log)]
        IN  /\ \A r \in LastKeyRows : r.data = b.data
            /\ Cardinality(LastKeyRows) <= 1
            /\ (~b.swept \/ b.ts >= Cutoff(b.at)) => Cardinality(LastKeyRows) = 1

\* two candles of one timestamp and timeframe were written, the second is
\* the one stored
C21_Witness ==
    /\ SameKeyTwice
    /\ log[Len(log)].kind = "ohlcv"
    /\ Cardinality(LastKeyRows) = 1
    /\ \E r \in LastKeyRows : r.data.v = "q"

\* C21 as stated: for every kind, the key has exactly one row and it carries
\* the second payload.
C21_AsStated ==
    SameKeyTwice =>
        /\ Cardinality(LastKeyRows) = 1
        /\ \A r \in LastKeyRows : r.data = log[Len(log)].data

\* C24: insert_data() never raises to its caller: the last call returned
\* False if it met an error (in resolving the shard, in the payload, in the
\* store) and True if it met none.
C24_InsertNeverRaises ==
    /\ result # "raised"
    /\ log # <<>> => (result = "true" <=> log[Len(log)].ok)
    /\ result \in {"none", "true", "false"}

\* a call that met an error has returned False after one that returned True
C24_Witness ==
    /\ Len(log) = 2
    /\ log[1].ok
    /\ ~log[2].ok
    /\ result = "false"
    /\ Cardinality(tables[log[1].kind]) = 1

\* C22: once the trade task has stored all it received, the trades table
\* holds at most one row for each trade, however often it was delivered.
C22_RedeliveryAddsNoRow ==
    pending = <<>> =>
        \A t \in Trades : Cardinality({r \in tables["trades"] : r.data.v = t}) <= 1

\* the records of the last get_data() are in descending order of timestamp
NewestFirst ==
    \A i, j \in DOMAIN fetched.rows : i < j => fetched.rows[i].ts >= fetched.rows[j].ts

\* C23: get_data(..., limit=N) returns its records in descending order of
\* timestamp for every N, and for N >= 0 never more than N of them.
C23_NewestFirstAtMostLimit ==
    /\ NewestFirst
    /\ fetched.limit >= 0 => Len(fetched.rows) <= fetched.limit

\* with timestamps 0, 1, 2 stored, limit 2 gave 2 then 1
C23_Witness ==
    /\ Cardinality(tables["ticker"]) = 3
    /\ fetched.kind = "ticker"
    /\ fetched.limit = 2
    /\ Len(fetched.rows) = 2
    /\ fetched.rows[1].ts = 2
    /\ fetched.rows[2].ts = 1

\* C23 as stated, for the calls that returned a record: never more than N
\* records, in descending order of timestamp, for every N.
C23_AsStated ==
    fetched.rows # <<>> =>
        /\ NewestFirst
        /\ Len(fetched.rows) <= fetched.limit

\* the successful balance writes whose timestamp falls on the day
WritesOfDay(day) ==
    {i \in DOMAIN log : log[i].ok /\ log[i].kind = "balance" /\ Day(log[i].ts) = day}

Latest(S) == CHOOSE i \in S : \A j \in S : j <= i

\* C25: after any sequence of balance writes the store holds at most one
\* balance row for each calendar day, and that row has the timestamp and the
\* payload of the last successful write for that day.
C25_OneBalancePerDay ==
    \A day \in 0 .. Day(MaxTime) :
        LET rows == {r \in tables["balance"] : Day(r.ts) = day}
        IN  /\ Cardinality(rows) <= 1
            /\ \A r \in rows :
                /\ WritesOfDay(day) # {}
                /\ r.ts = log[Latest(WritesOfDay(day))].ts
                /\ r.data = log[Latest(WritesOfDay(day))].data

\* two balances of one day and one of the next were written: two rows, the
\* first day's with the payload written second
C25_Witness ==
    /\ Len(log) = 3
    /\ \A i \in 1 .. 3 : log[i].ok
    /\ Day(log[1].ts) = 0 /\ Day(log[2].ts) = 0 /\ Day(log[3].ts) = 1
    /\ log[1].ts # log[2].ts
    /\ log[1].data.v # log[2].data.v
    /\ Cardinality(tables["balance"]) = 2
    /\ \E r \in tables["balance"] : r.data = log[2].data

\* C26: of the shards _get_db_path resolved, none is shared by a public
\* and a private kind; none is shared by two distinct user_id values that
\* both contain an underscore; and the shard of a private kind is the
\* same for every symbol.
C26_ShardsApart ==
    \A x, y \in resolved :
        /\ (x.req.kind \in PublicKinds /\ y.req.kind \in PrivateKinds) => x.path # y.path
        /\ (/\ x.req.kind \in PrivateKinds /\ y.req.kind \in PrivateKinds
            /\ x.req.user_id # y.req.user_id
            /\ Has(x.req.user_id, "_") /\ Has(y.req.user_id, "_")) => x.path # y.path
        /\ (/\ x.req.kind \in PrivateKinds /\ y.req.kind \in PrivateKinds
            /\ x.req.user_id = y.req.user_id) => x.path = y.path

\* two accounts of one name under two key prefixes, asked with two symbols,
\* have two shards
C26_Witness ==
    \E x, y \in resolved :
        /\ x.req.kind = "balance" /\ y.req.kind = "positions"
        /\ x.req.user_id = <<"a", "_", "a">>
        /\ y.req.user_id = <<"default", "_", "a">>
        /\ x.req.symbol # y.req.symbol
        /\ x.path # y.path

\* C26 as stated: no shard is shared by a public and a private kind, nor by
\* two distinct user_id values, and private kinds do not depend on the symbol.
C26_AsStated ==
    \A x, y \in resolved :
        /\ (x.req.kind \in PublicKinds /\ y.req.kind \in PrivateKinds) => x.path # y.path
        /\ (/\ x.req.kind \in PrivateKinds /\ y.req.kind \in PrivateKinds
            /\ x.req.user_id # y.req.user_id) => x.path # y.path
        /\ (/\ x.req.kind \in PrivateKinds /\ y.req.kind \in PrivateKinds
            /\ x.req.user_id = y.req.user_id) => x.path = y.path

\* C27: a run of the retention sweep on a table removes the rows whose
\* timestamp is earlier than now minus the retention window and no other
\* row, adds none and leaves the other tables alone; a second run on the
\* same table at the same instant, with no write between, removes nothing.
C27_SweepRemovesOnlyOld ==
    [][cleaned'.n # cleaned.n =>
        LET k == cleaned'.kind
        IN  /\ tables'[k] = {r \in tables[k] : ~(r.ts < now - retention_days * DayLen)}
            /\ \A j \in DataTypes \ {k} : tables'[j] = tables[j]
            /\ (/\ cleaned.n > 0
                /\ cleaned.kind = k
                /\ cleaned.at = now
                /\ cleaned.writes = Len(log)) => tables' = tables]_vars

\* a sweep has just run on a table written twice, with no sweep by a write: the
\* row older than the window is gone, the row half a day old is there
C27_Witness ==
    /\ cleaned.n = 1
    /\ cleaned.at = now
    /\ cleaned.writes = Len(log)
    /\ Len(log) = 2
    /\ \A i \in DOMAIN log : log[i].kind = cleaned.kind /\ log[i].ok /\ ~log[i].swept
    /\ log[1].ts < now - retention_days * DayLen
    /\ 2 * (now - log[2].ts) = DayLen
    /\ \A r \in tables[cleaned.kind] : r.ts = log[2].ts
    /\ tables[cleaned.kind] # {}

\* C28: a successful write made once the cleanup time of its day has been
\* reached, when no write has swept the shard that day, runs the sweep.
C28_WriteAfterCleanupTimeSweeps ==
    \A i \in DOMAIN log :
        (/\ log[i].ok
         /\ log[i].at >= CleanupToday(log[i].at)
         /\ ~\E j \in 1 .. i - 1 :
               /\ log[j].swept
               /\ Shard(log[j].kind) = Shard(log[i].kind)
               /\ Day(log[j].at) = Day(log[i].at)) => log[i].swept

\* C31: a start() that follows a stop() never hands the startup to the event
\* loop that stop() has asked to halt: the main thread is never waiting for
\* _start_with_lock on a loop that is stopping.
C31_NoStartupOnHaltingLoop ==
    ~(pc[1]["main"] = "start_await" /\ loop[1] = "stopping")

\* C32: _auto_stop_scheduled is true only while a call_later timer is pending
\* on the loop that is running.
C32_ScheduledMeansTimerPending ==
    auto_stop_scheduled[1] => (timer[1] /\ loop[1] = "running")

\* C34: get_reader_count() returns self._reader_count without taking the
\* mutex, so what another thread reads is the field in any reachable state:
\* it is never negative.
C34_CountNeverNegative == reader_count[1] >= 0

\* the stop() of the main thread leaves the wait for the collectors, and
\* returns from its last statement
LeavesWait == pc[1]["main"] = "stop_collectors" /\ pc'[1]["main"] # "stop_collectors"
LeavesStop == pc[1]["main"] = "stop_halt" /\ pc'[1]["main"] # "stop_halt"

\* C35: when the wait of stop() for the collectors raises or times out,
\* stop() goes on with the teardown, and on its return is_running() is false,
\* the process holds no lock and keeps no handle, the lock file is gone and
\* the loop is no longer running unhalted.
C35_FailedSignalStillTearsDown ==
    [][/\ (LeavesWait /\ signalled'[1] \in Failed) =>
            (pc'[1]["main"] = "stop_rl_test" /\ ~running'[1])
       /\ (LeavesStop /\ signalled[1] \in Failed) =>
            /\ ret'[1] = [by |-> "main", val |-> "stop_true"]
            /\ ~running'[1]
            /\ ~HoldsToken(1)'
            /\ lock_file'[1] = NoFile
            /\ lock_file_path' = 0
            /\ loop'[1] # "running"]_vars

\* a stop() whose wait raised has returned true with everything torn down
C35_Witness ==
    /\ pc[1]["main"] = "idle"
    /\ ret[1] = [by |-> "main", val |-> "stop_true"]
    /\ signalled[1] = "raised"
    /\ ~running[1]
    /\ lock_file[1] = NoFile
    /\ lock_file_path = 0
    /\ loop[1] = "stopping"

\* C36: a stop() whose bounded wait for the collectors timed out returns
\* false.
C36_TimedOutStopReturnsFalse ==
    [][(LeavesStop /\ signalled[1] = "timeout") => ret'[1].val = "stop_false"]_vars

\* C33: a start() called by a coroutine on a running loop, with the lock
\* free, ends its wait for the startup with the result true.
C33_StartInsideLoopReturnsTrue ==
    [][(pc[1]["main"] = "start_await" /\ pc'[1]["main"] # "start_await") =>
          ret'[1] = [by |-> "main", val |-> "start_true"]]_vars

\* C37: every observer registered through the orchestrator for a kind is
\* invoked for a record of that kind that a task processes.  Refuted: an
\* observer of 'ohlcv' or 'mytrade' is never attached to a collector.
C37_RegisteredObserverInvoked == delivered.asked \subseteq delivered.invoked

\* C38: within one DatabaseManager at most one connection is ever opened on a
\* shard, and every call that runs statements on the shard runs them on that
\* one pooled connection, also when threads reach a new shard together.
Running(t) == dpc[t].at \in {"execute", "commit"}
C38_OneConnectionPerShard ==
    /\ \A f \in Shards : made[f] <= 1 /\ connections[f] = made[f]
    /\ \A t \in Workers : Running(t) =>
           dpc[t].conn = 1 /\ dpc[t].conn = connections[dpc[t].shard]
C38_Witness ==
    \E t \in Workers, u \in Workers :
        /\ t # u
        /\ Running(t) /\ Running(u)
        /\ dpc[t].shard = dpc[u].shard
        /\ dpc[t].op = "insert_data" /\ dpc[u].op = "cleanup"
        /\ dpc[t].conn = 1 /\ dpc[u].conn = 1
        /\ made[dpc[t].shard] = 1

\* C39: no two calls run statements on the connection of one shard at the
\* same time.  Refuted: self.lock covers the lookup only.
C39_ShardAccessSerialized ==
    \A t \in Workers, u \in Workers :
        (t # u /\ Running(t) /\ Running(u)) => dpc[t].shard # dpc[u].shard

\* C40: once a write has run the day's sweep of its shard, no table of that
\* shard holds a row older than the retention window.  Refuted: the sweep
\* deletes from the table of the written kind only.
C40_SweepClearsShard ==
    (log # <<>> /\ log[Len(log)].swept) =>
        LET last == log[Len(log)]
        IN  \A k \in DataTypes :
                Shard(k) = Shard(last.kind) =>
                    \A r \in tables[k] : ~(r.ts < Cutoff(last.at))

====
